---- MODULE Spec2Model ----
(***************************************************************************)
(* DataSetIQ Sheets add-on (src/src/Code.ts): the series-fetch client.     *)
(* The module models the five custom functions, getPreviewData, the key    *)
(* store helpers and fetchSeries with its single retry, one action per     *)
(* stretch of code between two blocking host calls (UrlFetchApp.fetch,     *)
(* Utilities.sleep).  Code.ts holds two generations of the file; the       *)
(* second one (from line 583) is the one whose declarations take effect    *)
(* and is the one modelled; of the first one only the success return of    *)
(* its fetchSeries is modelled (EarlierSuccess).                           *)
(***************************************************************************)
EXTENDS Integers, Sequences, FiniteSets, TLC

\* ------------------------------------------------------------------ bounds
\* Longest observation list a provider body carries.
MaxObs == 2
\* Largest attempt number computeRetryAfter is evaluated at.
MaxAttemptArg == 2
\* Longest list handed to buildArrayResult on its own.
MaxRows == 3
\* Most templates saved while the model runs.
MaxTemplates == 1
\* Series ids the sidebar hands to the favorites and the recents.
MaxIds == 3
\* Ids of one insertMultipleSeries call.
MaxBatch == 2

\* ------------------------------------------------------- optional values
\* A JavaScript value that may be undefined: <<>> is undefined, <<x>> is x.
None == <<>>
Some(x) == <<x>>
IsSome(o) == Len(o) = 1
Get(o) == o[1]

\* ------------------------------------------------------ program constants
HEADER_ROW == <<"Date", "Value">>
BaseDelayMs == 500
MsPerSecond == 1000
MaxAttempts == 2
FreeTierNotice == 100
\* slice(0, 50) of the favorites, slice(0, 20) of the recents and the templates.
FavoritesKept == 50
RecentsKept == 20
TemplatesKept == 20

RECURSIVE Pow2(_)
Pow2(n) == IF n = 0 THEN 1 ELSE 2 * Pow2(n - 1)

\* --------------------------------------------------- raw call arguments
\* A raw argument as the host passes it: t is the JavaScript type; s the
\* string (t = "string"); ms the time stamp of a Date, None when it is NaN.
JsUndefined == [t |-> "undefined", s |-> "", ms |-> None]
JsNull == [t |-> "null", s |-> "", ms |-> None]
JsString(x) == [t |-> "string", s |-> x, ms |-> None]
JsNumber5 == [t |-> "number", s |-> "5", ms |-> None]
JsDate(m) == [t |-> "date", s |-> "", ms |-> m]

\* String.prototype.trim on the strings of the model.
Trim(s) ==
  CASE s = " GDP " -> "GDP"
    [] s = " A/B " -> "A/B"
    [] s = "  " -> ""
    [] s = " key-1 " -> "key-1"
    [] OTHER -> s

\* Utilities.formatDate(date, 'GMT', 'yyyy-MM-dd') on the dates of the model.
FormatDate(ms) ==
  CASE ms = 0 -> "1970-01-01"
    [] ms = 86400000 -> "1970-01-02"
    [] OTHER -> "1970-01-03"

\* normalizeOptionalString: None is undefined.
normalizeOptionalString(value) ==
  IF value.t \in {"null", "undefined"} THEN None
  ELSE IF value.t = "string"
       THEN (IF Trim(value.s) /= "" THEN Some(Trim(value.s)) ELSE None)
       ELSE Some(value.s)

\* normalizeSeriesId, had it let a missing id through as the empty string.
normalizeSeriesId_Unchecked(seriesId) ==
  LET normalized == normalizeOptionalString(seriesId) IN
  [ok |-> TRUE, value |-> IF IsSome(normalized) THEN Get(normalized) ELSE "", error |-> ""]

\* normalizeSeriesId: [ok, value] or [ok = FALSE, error].
normalizeSeriesId(seriesId) ==
  LET normalized == normalizeOptionalString(seriesId) IN
  IF ~IsSome(normalized)
  THEN [ok |-> FALSE, value |-> "", error |-> "series_id is required."]
  ELSE [ok |-> TRUE, value |-> Get(normalized), error |-> ""]

\* normalizeDateInput: [ok, value (None = undefined)] or [ok = FALSE, error].
normalizeDateInput(value) ==
  IF value.t \in {"null", "undefined"} \/ (value.t = "string" /\ value.s = "")
  THEN [ok |-> TRUE, value |-> None, error |-> ""]
  ELSE IF value.t = "date"
       THEN (IF ~IsSome(value.ms)
             THEN [ok |-> FALSE, value |-> None, error |-> "Invalid date."]
             ELSE [ok |-> TRUE, value |-> Some(FormatDate(Get(value.ms))), error |-> ""])
       ELSE IF value.t = "string"
            THEN [ok |-> TRUE, value |-> Some(value.s), error |-> ""]
            ELSE [ok |-> FALSE, value |-> None, error |-> "Invalid date input."]

\* ------------------------------------------------------ provider bodies
\* A parsed JSON value as fetchSeries reads it.  kind "object" carries the
\* members the code reads; "null" is JSON null; "prim" is a number, a string
\* or a boolean (every member read of it gives undefined).
ErrorCodes ==
  {"NO_KEY", "INVALID_KEY", "REVOKED_KEY", "FREE_LIMIT", "QUOTA_EXCEEDED",
   "PLAN_REQUIRED", "UNKNOWN"}
\* The codes the provider bodies of the fetch model carry.
BodyCodes == {"INVALID_KEY", "FREE_LIMIT", "UNKNOWN"}
ProviderMessages == {"", "Series not found."}

\* body.error: truthy = FALSE is a falsy member (null); otherwise an object
\* with optional code and message.
ErrorObjects ==
  {[truthy |-> TRUE, code |-> c, message |-> m] :
     c \in {None} \cup {Some(x) : x \in BodyCodes},
     m \in {None} \cup {Some(x) : x \in ProviderMessages}}
ErrorNull == [truthy |-> FALSE, code |-> None, message |-> None]

\* An item of a data list, as the properties the code reads of it: date and
\* value of an object {date, value}; i0 and i1, the elements of an array
\* [x, y].  A property the item does not have reads as undefined (None).
ObjectItem(date, value) ==
  [date |-> Some(date), value |-> Some(value), i0 |-> None, i1 |-> None]
Array2(x, y) == [date |-> None, value |-> None, i0 |-> x, i1 |-> y]
Obs1 == ObjectItem("2024-01-01", 300)
Obs2 == ObjectItem("2023-01-01", 290)
\* The same two observations in the older payload shape, [date, value].
Pair1 == Array2(Some("2024-01-01"), Some(300))
Pair2 == Array2(Some("2023-01-01"), Some(290))
Observations == {Obs1, Obs2}
ObsLists == UNION {[1..n -> Observations] : n \in 0..MaxObs}

Dataset1 == [title |-> "Consumer Price Index", units |-> "Index"]

JsObject(error, data, dataset, scalar, status, message) ==
  [kind |-> "object", error |-> error, data |-> data, dataset |-> dataset,
   scalar |-> scalar, seriesId |-> None, status |-> status, message |-> message]
EmptyObject == JsObject(None, None, None, None, None, None)
JsonNull == [EmptyObject EXCEPT !.kind = "null"]
JsonPrim == [EmptyObject EXCEPT !.kind = "prim"]

ErrorBodies ==
  {JsObject(Some(e), None, None, None, None, None) : e \in ErrorObjects}
  \cup {JsObject(Some(ErrorNull), Some(<<Obs1>>), None, None, None, None),
        JsObject(Some([truthy |-> TRUE, code |-> Some("INVALID_KEY"), message |-> None]),
                 Some(<<Obs1>>), Some(Dataset1), Some(7), None, None)}
\* A data list as long as the anonymous limit: the oldest observation first,
\* then the newest one over and over.
FullPage == [i \in 1..FreeTierNotice |-> IF i = 1 THEN Obs2 ELSE Obs1]

\* Bodies that carry a status hint: with an empty data list, with no data
\* list, and with a dataset.
HintBodies ==
  {JsObject(None, Some(<<>>), None, None, Some("metadata_only"),
            Some("Full data not ingested.")),
   JsObject(None, None, None, None, Some("ingestion_pending"),
            Some("Ingestion pending.")),
   JsObject(None, Some(<<>>), Some(Dataset1), None, Some("metadata_only"),
            Some("Full data not ingested."))}
DataBodies ==
  {JsObject(None, d, ds, sc, None, None) :
     d \in {None} \cup {Some(l) : l \in ObsLists},
     ds \in {None, Some(Dataset1)},
     sc \in {None, Some(7)}}
  \cup HintBodies
  \cup {JsObject(None, Some(<<Pair1, Pair2>>), None, Some(7), None, None),
        JsObject(None, Some(FullPage), None, None, None, None)}
JsonValues == ErrorBodies \cup DataBodies \cup {JsonNull, JsonPrim}

\* The text of a response body: malformed text, or the text of a JSON value.
BodyTexts ==
  {[malformed |-> TRUE, json |-> EmptyObject]}
  \cup {[malformed |-> FALSE, json |-> v] : v \in JsonValues}

\* parseJson, had a text that does not parse given null.
parseJson_NullOnError(bodyText) ==
  IF bodyText.malformed THEN JsonNull ELSE bodyText.json

\* parseJson: JSON.parse, and {} when it throws.
parseJson(bodyText) ==
  IF bodyText.malformed THEN EmptyObject ELSE bodyText.json

\* body?.error, body.dataset, ... : a member read; an object's missing member
\* and any member of a primitive are undefined.
Member(body, name) == IF body.kind = "object" THEN body[name] ELSE None
\* The truthiness of body?.error.
HasError(body) ==
  body.kind = "object" /\ IsSome(body.error) /\ Get(body.error).truthy

\* ------------------------------------------------------ response headers
\* getAllHeaders(): the header names and values in the order the host lists
\* them, as <<name, value>> pairs.
RetryAfterValues == {"", "0", "1", "2", "-1", " ", "soon", "Thu, 01 Jan 1970 00:00:10 GMT"}
HeaderSets ==
  {<<>>, << <<"Content-Type", "application/json">> >>}
  \cup {<< <<k, v>> >> : k \in {"Retry-After", "retry-after"}, v \in RetryAfterValues}
  \cup {<< <<"Retry-After", "2">>, <<"RETRY-AFTER", "1">> >>,
        << <<"X-Retry-After", "2">> >>}
\* Date.now() at the moment computeRetryAfter runs.
Nows == {7000, 10000, 13000}

\* String.prototype.toLowerCase on the header names of the model.
ToLowerCase(k) ==
  CASE k \in {"Retry-After", "RETRY-AFTER", "retry-after"} -> "retry-after"
    [] k = "X-Retry-After" -> "x-retry-after"
    [] k = "Content-Type" -> "content-type"
    [] OTHER -> k

\* normalizeHeaders: lower-cased names; a later entry overwrites an earlier one.
normalizeHeaders(headers) ==
  [k \in {ToLowerCase(headers[i][1]) : i \in DOMAIN headers} |->
     LET last == CHOOSE i \in DOMAIN headers :
                   /\ ToLowerCase(headers[i][1]) = k
                   /\ \A j \in DOMAIN headers :
                        ToLowerCase(headers[j][1]) = k => j <= i
     IN headers[last][2]]

\* Number(s) on the header values of the model: None is NaN.
ToNumber(s) ==
  CASE s = "0" -> Some(0)
    [] s = "1" -> Some(1)
    [] s = "2" -> Some(2)
    [] s = "-1" -> Some(-1)
    [] s = " " -> Some(0)
    [] s = "" -> Some(0)
    [] OTHER -> None

\* Date.parse(s) on the header values of the model, in ms: None is NaN.
DateParse(s) ==
  IF s = "Thu, 01 Jan 1970 00:00:10 GMT" THEN Some(10000) ELSE None

\* SecondsToMs, had the seconds been handed on as milliseconds.
SecondsToMs_NoScaling(seconds) == seconds

\* asNumber * 1000
SecondsToMs(seconds) == seconds * MsPerSecond

\* 500 * Math.pow(2, attempt)
ExponentialDelay(attempt) == BaseDelayMs * Pow2(attempt)

\* computeRetryAfter; now is the value Date.now() returns.
computeRetryAfter(headers, attempt, now) ==
  LET retryAfter == IF "retry-after" \in DOMAIN headers
                    THEN headers["retry-after"] ELSE "" IN
  IF "retry-after" \in DOMAIN headers /\ retryAfter /= ""
  THEN IF IsSome(ToNumber(retryAfter))
       THEN SecondsToMs(Get(ToNumber(retryAfter)))
       ELSE IF IsSome(DateParse(retryAfter))
            THEN (IF Get(DateParse(retryAfter)) - now > 0
                  THEN Get(DateParse(retryAfter)) - now
                  ELSE ExponentialDelay(attempt))
            ELSE ExponentialDelay(attempt)
  ELSE ExponentialDelay(attempt)

\* ------------------------------------------------------- error translator
\* mapError, had the provider's message been preferred to the status messages.
mapError_FallbackFirst(code, status, fallback) ==
  IF code = Some("NO_KEY") THEN "Please open DataSetIQ sidebar to connect."
  ELSE IF code = Some("INVALID_KEY")
  THEN "Invalid API Key. Reconnect at datasetiq.com/dashboard/api-keys"
  ELSE IF code = Some("REVOKED_KEY")
  THEN "API Key revoked. Get a new key at datasetiq.com/dashboard/api-keys"
  ELSE IF code = Some("FREE_LIMIT")
  THEN "Free plan limit reached. Upgrade at datasetiq.com/pricing"
  ELSE IF code = Some("QUOTA_EXCEEDED")
  THEN "Daily Quota Exceeded. Upgrade at datasetiq.com/pricing"
  ELSE IF code = Some("PLAN_REQUIRED")
  THEN "Upgrade required. Visit datasetiq.com/pricing"
  ELSE IF IsSome(fallback) /\ Get(fallback) /= "" THEN Get(fallback)
  ELSE IF status = 429 THEN "Rate limited. Please retry shortly."
  ELSE IF status >= 500 THEN "Server unavailable. Please retry."
  ELSE "Unable to fetch data."

\* mapError, had the status been looked at before the code.
mapError_StatusFirst(code, status, fallback) ==
  IF status = 429 THEN "Rate limited. Please retry shortly."
  ELSE IF status >= 500 THEN "Server unavailable. Please retry."
  ELSE IF code = Some("NO_KEY") THEN "Please open DataSetIQ sidebar to connect."
  ELSE IF code = Some("INVALID_KEY")
  THEN "Invalid API Key. Reconnect at datasetiq.com/dashboard/api-keys"
  ELSE IF code = Some("REVOKED_KEY")
  THEN "API Key revoked. Get a new key at datasetiq.com/dashboard/api-keys"
  ELSE IF code = Some("FREE_LIMIT")
  THEN "Free plan limit reached. Upgrade at datasetiq.com/pricing"
  ELSE IF code = Some("QUOTA_EXCEEDED")
  THEN "Daily Quota Exceeded. Upgrade at datasetiq.com/pricing"
  ELSE IF code = Some("PLAN_REQUIRED")
  THEN "Upgrade required. Visit datasetiq.com/pricing"
  ELSE IF IsSome(fallback) /\ Get(fallback) /= "" THEN Get(fallback)
  ELSE "Unable to fetch data."

\* mapError, had the last line been fallback ?? 'Unable to fetch data.'.
mapError_EmptyFallbackKept(code, status, fallback) ==
  IF code = Some("NO_KEY") THEN "Please open DataSetIQ sidebar to connect."
  ELSE IF code = Some("INVALID_KEY")
  THEN "Invalid API Key. Reconnect at datasetiq.com/dashboard/api-keys"
  ELSE IF code = Some("REVOKED_KEY")
  THEN "API Key revoked. Get a new key at datasetiq.com/dashboard/api-keys"
  ELSE IF code = Some("FREE_LIMIT")
  THEN "Free plan limit reached. Upgrade at datasetiq.com/pricing"
  ELSE IF code = Some("QUOTA_EXCEEDED")
  THEN "Daily Quota Exceeded. Upgrade at datasetiq.com/pricing"
  ELSE IF code = Some("PLAN_REQUIRED")
  THEN "Upgrade required. Visit datasetiq.com/pricing"
  ELSE IF status = 429 THEN "Rate limited. Please retry shortly."
  ELSE IF status >= 500 THEN "Server unavailable. Please retry."
  ELSE IF IsSome(fallback) THEN Get(fallback)
  ELSE "Unable to fetch data."

\* mapError(code, status, fallback); code and fallback are optional.
mapError(code, status, fallback) ==
  IF code = Some("NO_KEY") THEN "Please open DataSetIQ sidebar to connect."
  ELSE IF code = Some("INVALID_KEY")
  THEN "Invalid API Key. Reconnect at datasetiq.com/dashboard/api-keys"
  ELSE IF code = Some("REVOKED_KEY")
  THEN "API Key revoked. Get a new key at datasetiq.com/dashboard/api-keys"
  ELSE IF code = Some("FREE_LIMIT")
  THEN "Free plan limit reached. Upgrade at datasetiq.com/pricing"
  ELSE IF code = Some("QUOTA_EXCEEDED")
  THEN "Daily Quota Exceeded. Upgrade at datasetiq.com/pricing"
  ELSE IF code = Some("PLAN_REQUIRED")
  THEN "Upgrade required. Visit datasetiq.com/pricing"
  ELSE IF status = 429 THEN "Rate limited. Please retry shortly."
  ELSE IF status >= 500 THEN "Server unavailable. Please retry."
  ELSE IF IsSome(fallback) /\ Get(fallback) /= "" THEN Get(fallback)
  ELSE "Unable to fetch data."

\* ------------------------------------------------------------ table builder
\* new Date(s).getTime() on the observation dates of the model, counted in
\* days since the epoch (the order of the time stamps is what the sort reads).
DateTime(s) ==
  CASE s = "2024-01-01" -> 19723
    [] s = "2023-01-01" -> 19358
    [] OTHER -> 0

\* ComesBefore, had a difference of 0 also moved the row forward.
ComesBefore_OrEqual(a, b) ==
  /\ IsSome(a.i0)
  /\ IsSome(b.i0)
  /\ DateTime(Get(b.i0)) - DateTime(Get(a.i0)) <= 0

\* ComesBefore, had the comparator been aDate - bDate.
ComesBefore_Ascending(a, b) ==
  /\ IsSome(a.i0)
  /\ IsSome(b.i0)
  /\ DateTime(Get(a.i0)) - DateTime(Get(b.i0)) < 0

\* bDate - aDate < 0 (lines 1150-1152); the time of an undefined date is NaN,
\* the difference is then NaN, which the sort takes for 0.
ComesBefore(a, b) ==
  /\ IsSome(a.i0)
  /\ IsSome(b.i0)
  /\ DateTime(Get(b.i0)) - DateTime(Get(a.i0)) < 0

\* Array.prototype.sort with (a, b) => bDate - aDate: a stable sort, newest first.
\* The row goes in front of the first sorted row it comes before, after all
\* of them when there is none.
InsertByDateDesc(row, sorted) ==
  LET later == {i \in DOMAIN sorted : ComesBefore(row, sorted[i])}
      at == IF later = {} THEN Len(sorted) + 1
            ELSE CHOOSE i \in later : \A k \in later : i <= k
  IN SubSeq(sorted, 1, at - 1) \o <<row>> \o SubSeq(sorted, at, Len(sorted))

\* The rows inserted one after the other, in their order, into the sorted
\* rows. The list is halved, and the first half is worked out (its length
\* read) before the second is started, so that a page of 100 rows nests 7
\* deep in the evaluation.
RECURSIVE InsertAllByDateDesc(_, _)
InsertAllByDateDesc(sorted, rows) ==
  IF rows = <<>> THEN sorted
  ELSE IF Len(rows) = 1 THEN InsertByDateDesc(rows[1], sorted)
  ELSE LET half == Len(rows) \div 2
           first == InsertAllByDateDesc(sorted, SubSeq(rows, 1, half))
       IN IF Len(first) >= half
          THEN InsertAllByDateDesc(first, SubSeq(rows, half + 1, Len(rows)))
          ELSE first

SortByDateDesc(rows) == InsertAllByDateDesc(<<>>, rows)

\* buildArrayResult; data is [isArray, items].
buildArrayResult(data) ==
  IF ~data.isArray THEN <<HEADER_ROW>>
  ELSE <<HEADER_ROW>> \o SortByDateDesc(data.items)

\* The list handed to buildArrayResult, once it has returned: the sort works
\* on the copy [...data] (line 1148).
DataAfterBuild(data) == data

\* ---------------------------------------------------------- request builder
SERIES_PATH == "/api/public/series/"
SERIES_DATA_PATH == "/data"

BASE_URL == "https://datasetiq.com"

\* encodeURIComponent, had it left the string as it is.
encodeURIComponent_Verbatim(s) == s

\* encodeURIComponent on the ids and dates of the model.
encodeURIComponent(s) ==
  CASE s = "A/B" -> "A%2FB"
    [] OTHER -> s

\* if (start) params.push(`start=...`), line 1074.
StartParam(options) ==
  IF IsSome(options.start) /\ Get(options.start) /= ""
  THEN << <<"start", encodeURIComponent(Get(options.start))>> >>
  ELSE <<>>

\* EndParam, had the as-of date been left out of the query.
EndParam_Dropped(options) == <<>>

\* if (date) params.push(`end=...`), line 1075.
EndParam(options) ==
  IF IsSome(options.date) /\ Get(options.date) /= ""
  THEN << <<"end", encodeURIComponent(Get(options.date))>> >>
  ELSE <<>>

\* LimitParam, had the limit been the anonymous one for every request.
LimitParam_AlwaysAnonymous(key) == << <<"limit", "100">> >>

\* params.push(`limit=${key ? '1000' : '100'}`), line 1077.
LimitParam(key) == << <<"limit", IF IsSome(key) THEN "1000" ELSE "100">> >>

\* fetchSeries, lines 1063-1087: the URL (origin, path, encoded id, suffix,
\* query parameters in order) and the headers; key is the stored credential.
\* options.freq is not read (line 1064 takes mode, start and date only).
BuildRequest(seriesId, options, key) ==
  LET isMetaMode == options.mode = "meta"
  IN [base |-> BASE_URL,
      path |-> SERIES_PATH,
      id |-> encodeURIComponent(seriesId),
      suffix |-> IF isMetaMode THEN "" ELSE SERIES_DATA_PATH,
      params |-> IF isMetaMode THEN <<>>
                 ELSE StartParam(options) \o EndParam(options) \o LimitParam(key),
      authorization |-> IF IsSome(key) THEN Some(<<"Bearer", Get(key)>>) ELSE None]

\* ------------------------------------------------------ response normalizer
\* fetchSeries, lines 1099-1122: the response handed back on success.  The
\* observations of the result are <<date, value>> pairs.
\* ToPair, had it read the value under a name the item does not have.
ToPair_ValueLost(obs) == Array2(obs.date, None)

\* line 1105: (obs) => [obs.date, obs.value]
ToPair(obs) == Array2(obs.date, obs.value)

\* ScalarOf, had the latest mode taken the first pair.
ScalarOf_LatestTakesFirst(mode, dataArray) ==
  IF mode = "latest" /\ Len(dataArray) > 0 THEN dataArray[1].i1
  ELSE IF mode = "value" /\ Len(dataArray) > 0 THEN dataArray[1].i1
  ELSE None

\* ScalarOf, had the value mode taken the last pair.
ScalarOf_ValueTakesLast(mode, dataArray) ==
  IF mode = "latest" /\ Len(dataArray) > 0 THEN dataArray[Len(dataArray)].i1
  ELSE IF mode = "value" /\ Len(dataArray) > 0 THEN dataArray[Len(dataArray)].i1
  ELSE None

\* lines 1113-1119: the scalar of the transformed response; None when no
\* branch assigns it (every mode but latest and value, or an empty list).
ScalarOf(mode, dataArray) ==
  IF mode = "latest" /\ Len(dataArray) > 0 THEN dataArray[Len(dataArray)].i1
  ELSE IF mode = "value" /\ Len(dataArray) > 0 THEN dataArray[1].i1
  ELSE None

TransformResponse(mode, body) ==
  IF mode = "meta" /\ IsSome(Member(body, "dataset"))
  THEN [EmptyObject EXCEPT !.dataset = body.dataset]
  ELSE IF IsSome(Member(body, "data"))
  THEN LET data == Get(body.data)
           dataArray == [i \in DOMAIN data |-> ToPair(data[i])]
       IN [EmptyObject EXCEPT !.data = Some(dataArray),
                              !.seriesId = body.seriesId,
                              !.status = body.status,
                              !.message = body.message,
                              !.scalar = ScalarOf(mode, dataArray)]
  ELSE body

\* What fetchSeries returns on success (line 1123).
Success(response) == [response |-> Some(response), errorMessage |-> None]

\* Failure, had the failing return also handed back a response object.
Failure_WithResponse(message) ==
  [response |-> Some(EmptyObject), errorMessage |-> Some(message)]

\* What fetchSeries returns on failure (line 1137).
Failure(message) == [response |-> None, errorMessage |-> Some(message)]

\* IsSuccess, had it looked at the status alone.
IsSuccess_StatusOnly(status, body) == status >= 200 /\ status < 300

\* line 1097: a 2xx status and no truthy error member.
IsSuccess(status, body) == status >= 200 /\ status < 300 /\ ~HasError(body)

\* IsRetryable, had it left out the rate-limit status.
IsRetryable_ServerOnly(status) == status >= 500

\* line 1126
IsRetryable(status) == status = 429 \/ status >= 500

\* ShouldRetry, had it retried on every pass.
ShouldRetry_EveryPass(attempt, status) == IsRetryable(status)

\* line 1127: only the first pass retries.
ShouldRetry(attempt, status) == attempt = 0 /\ IsRetryable(status)

\* NextAttempt, had the counter been left as it is.
NextAttempt_Forgotten(attempt) == attempt

\* line 1130: attempt += 1
NextAttempt(attempt) == attempt + 1

\* fetchSeries, lines 1091-1137: one iteration of the loop on a response of the
\* provider.  kind "return": the call returns result; "sleep": the call goes
\* on to Utilities.sleep(retryAfterMs) and a second iteration; "throw": a
\* member read of a null body raises a TypeError.
LoopBody(mode, attempt, status, bodyText, rawHeaders, now) ==
  LET body == parseJson(bodyText)
      headers == normalizeHeaders(rawHeaders)
      error == Member(body, "error")
      code == IF HasError(body) THEN Get(error).code ELSE None
      messageFromBody == IF HasError(body) THEN Get(error).message ELSE None
  IN IF IsSuccess(status, body)
     THEN IF body.kind = "null"
          THEN [kind |-> "throw", result |-> Failure("TypeError"), retryAfterMs |-> 0]
          ELSE [kind |-> "return", result |-> Success(TransformResponse(mode, body)),
                retryAfterMs |-> 0]
     ELSE IF ShouldRetry(attempt, status)
     THEN [kind |-> "sleep", result |-> Failure(""),
           retryAfterMs |-> computeRetryAfter(headers, attempt, now)]
     ELSE [kind |-> "return", result |-> Failure(mapError(code, status, messageFromBody)),
           retryAfterMs |-> 0]

\* RequestSent, had each pass read the key and built its headers and limit anew.
RequestSent_KeyReadAgain(req, key) ==
  [req EXCEPT !.authorization = IF IsSome(key) THEN Some(<<"Bearer", Get(key)>>)
                                ELSE None,
              !.params = IF req.params = <<>> THEN <<>>
                         ELSE SubSeq(req.params, 1, Len(req.params) - 1)
                              \o LimitParam(key)]

\* UrlFetchApp.fetch(url, request) (line 1091): every pass hands over the url
\* and the request built before the loop, whatever the stored key is by then.
RequestSent(req, key) == req

\* ------------------------------------------------------ the user properties
\* favorites, recents and templates as their getters read them: the list
\* stored, [] when the property was never set (lines 1000-1001, 1027-1028,
\* 1349-1350).
NoProperties == [favorites |-> <<>>, recents |-> <<>>, templates |-> <<>>]
Includes(list, x) == \E i \in DOMAIN list : list[i] = x
Without(list, x) == SelectSeq(list, LAMBDA y : y /= x)
\* list.slice(0, n)
Slice(list, n) == SubSeq(list, 1, IF Len(list) < n THEN Len(list) ELSE n)
\* addToRecent, had it left an id that is on the list where it is.
addToRecent_NotMoved(recent, seriesId) ==
  IF Includes(recent, seriesId) THEN recent
  ELSE Slice(<<seriesId>> \o recent, RecentsKept)

\* addToRecent (lines 1031-1039), on the list getRecent reads.
addToRecent(recent, seriesId) == Slice(<<seriesId>> \o Without(recent, seriesId), RecentsKept)

\* The forEach of insertMultipleSeries (lines 1395-1400): addToRecent for each
\* id, in the order of the list.
RECURSIVE addEachToRecent(_, _)
addEachToRecent(recent, seriesIds) ==
  IF seriesIds = <<>> THEN recent
  ELSE addEachToRecent(addToRecent(recent, Head(seriesIds)), Tail(seriesIds))

\* The list addFavorite leaves, had it written the list without cutting it.
FavoritesWith_Uncut(favorites, seriesId) ==
  IF Includes(favorites, seriesId) THEN favorites ELSE <<seriesId>> \o favorites

\* The list addFavorite (lines 1005-1012) leaves in the store: a write happens
\* only for an id that is not on the list.
FavoritesWith(favorites, seriesId) ==
  IF Includes(favorites, seriesId) THEN favorites
  ELSE Slice(<<seriesId>> \o favorites, FavoritesKept)

\* ------------------------------------------------------------------ state
VARIABLES
  apiKey,        \* the DATASETIQ_API_KEY user property: None when not set
  userProperties, \* the favorites, recents and templates user properties
  pc,            \* "idle", "fetch" (before UrlFetchApp.fetch), "sleep"
                 \* (before Utilities.sleep), "done" (the entry point ended)
  call,          \* the entry point that runs: its name, series id, field, phase
  options,       \* fetchSeries: the options of the running fetch
  request,       \* fetchSeries: the URL and headers built before the loop
  attempt,       \* fetchSeries: the loop counter
  status,        \* loop body: response.getResponseCode(), None before a response
  body,          \* loop body: the parsed body, kept once the iteration returns
  headers,       \* loop body: response.getAllHeaders(), kept on the retry path
  retryAfterMs,  \* loop body: the delay handed to Utilities.sleep
  result,        \* what the last fetchSeries returned, None while it runs
  latest,        \* getPreviewData: what it keeps of its first fetch
  events,        \* history: the host calls of the running fetch, in order
  httpCalls,     \* history: UrlFetchApp.fetch calls of the running entry point
  outcome        \* what the entry point returned or raised

vars ==
  <<apiKey, userProperties, pc, call, options, request, attempt, status, body, headers,
    retryAfterMs, result, latest, events, httpCalls, outcome>>
\* What belongs to the running execution, the user properties left out.
execution ==
  <<pc, call, options, request, attempt, status, body, headers, retryAfterMs,
    result, latest, events, httpCalls, outcome>>

\* ---------------------------------------------------------------- inputs
SeriesIdInputs ==
  {JsUndefined, JsNull, JsString(""), JsString("  "), JsString(" A/B ")}
FrequencyInputs == {JsNull, JsString("m")}
DateInputs ==
  {JsUndefined, JsString(""), JsString("2023-06-01"), JsDate(Some(0)), JsDate(None),
   JsNumber5}
FieldInputs ==
  {JsNull, JsString("  "), JsString("title"), JsString("frequency"),
   JsString("toString")}
KeyInputs == {JsNull, JsString("  "), JsString(" key-1 ")}
PreviewIds == {"GDP"}
\* The ids of the formulas computed alongside the sidebar.
FormulaIds == {JsUndefined, JsString(" A/B ")}
Statuses == {200, 204, 302, 401, 429, 500, 503}

NoOptions == [mode |-> "", freq |-> None, start |-> None, date |-> None]
NoRequest ==
  [base |-> "", path |-> "", id |-> "", suffix |-> "", params |-> <<>>,
   authorization |-> None]
\* The raw arguments of the running entry point, as the host passed them.
NoArgs ==
  [seriesId |-> JsUndefined, frequency |-> JsUndefined, date |-> JsUndefined,
   field |-> JsUndefined, key |-> JsUndefined]
\* sent: the status and message members of the body that answered the first
\* fetch of getPreviewData (history).  malformed: the text of the body last
\* read did not parse as JSON (history).  requests: what each UrlFetchApp.fetch
\* of the running fetch was handed, in order (history).  keys: the stored key
\* at the time of each of these calls (history).
NoHint == [status |-> None, message |-> None]
NoCall ==
  [fn |-> "", series |-> "", field |-> "", phase |-> 0, args |-> NoArgs,
   sent |-> NoHint, malformed |-> FALSE, requests |-> <<>>, keys |-> <<>>,
   ids |-> <<>>, read |-> <<>>]
NoValue ==
  [msg |-> "", grid |-> <<>>, scalar |-> None, field |-> None, preview |-> None]
NoOutcome == [kind |-> "none", value |-> NoValue]
Throw(message) == [kind |-> "throw", value |-> [NoValue EXCEPT !.msg = message]]
Return(value) == [kind |-> "return", value |-> value]

HttpEvent == [type |-> "http", ms |-> 0]
SleepEvent(ms) == [type |-> "sleep", ms |-> ms]
CountEvents(log, type) == Cardinality({i \in DOMAIN log : log[i].type = type})

Init ==
  /\ apiKey = None
  /\ userProperties = NoProperties
  /\ pc = "idle"
  /\ call = NoCall
  /\ options = NoOptions
  /\ request = NoRequest
  /\ attempt = 0
  /\ status = None
  /\ body = None
  /\ headers = None
  /\ retryAfterMs = 0
  /\ result = None
  /\ latest = None
  /\ events = <<>>
  /\ httpCalls = 0
  /\ outcome = NoOutcome

\* StartFetch, had fetchSeries put the id on the recents as
\* insertFormulaIntoActiveCell does.
StartFetch_AddsRecent(seriesId, opts) ==
  /\ options' = opts
  /\ request' = BuildRequest(seriesId, opts, apiKey)
  /\ attempt' = 0
  /\ status' = None
  /\ body' = None
  /\ headers' = None
  /\ retryAfterMs' = 0
  /\ result' = None
  /\ events' = <<>>
  /\ pc' = "fetch"
  /\ userProperties' = [userProperties EXCEPT !.recents = addToRecent(@, seriesId)]

\* fetchSeries up to its loop (lines 1063-1089): the key is read and the
\* request is built; the user properties are read only (getApiKey).
StartFetch(seriesId, opts) ==
  /\ options' = opts
  /\ request' = BuildRequest(seriesId, opts, apiKey)
  /\ attempt' = 0
  /\ status' = None
  /\ body' = None
  /\ headers' = None
  /\ retryAfterMs' = 0
  /\ result' = None
  /\ events' = <<>>
  /\ pc' = "fetch"
  /\ UNCHANGED userProperties

\* An entry point ends before any fetch.
EndEarly(o) ==
  /\ pc' = "done"
  /\ outcome' = o
  /\ UNCHANGED <<userProperties, options, request, attempt, status, body, headers,
                 retryAfterMs, result, events>>

\* ------------------------------------------------------------ entry points
\* DSIQ up to its fetch (lines 696-704).
DSIQ(seriesId, frequency, startDate) ==
  /\ pc = "idle"
  /\ LET series == normalizeSeriesId(seriesId)
         freq == normalizeOptionalString(frequency)
         start == normalizeDateInput(startDate)
     IN /\ call' = [NoCall EXCEPT !.fn = "DSIQ", !.series = series.value,
                                  !.args = [NoArgs EXCEPT !.seriesId = seriesId,
                                                          !.frequency = frequency,
                                                          !.date = startDate]]
        /\ IF ~series.ok THEN EndEarly(Throw(series.error))
           ELSE IF ~start.ok THEN EndEarly(Throw(start.error))
           ELSE /\ StartFetch(series.value,
                              [mode |-> "table", freq |-> freq, start |-> start.value,
                               date |-> None])
                /\ outcome' = NoOutcome
  /\ httpCalls' = 0
  /\ UNCHANGED <<apiKey, latest>>

\* handleScalar up to its fetch (lines 1044-1046).
handleScalar(fn, seriesId, opts, date) ==
  LET series == normalizeSeriesId(seriesId)
  IN /\ call' = [NoCall EXCEPT !.fn = fn, !.series = series.value,
                               !.args = [NoArgs EXCEPT !.seriesId = seriesId,
                                                       !.date = date]]
     /\ IF ~series.ok THEN EndEarly(Throw(series.error))
        ELSE /\ StartFetch(series.value, opts)
             /\ outcome' = NoOutcome
     /\ httpCalls' = 0
     /\ UNCHANGED <<apiKey, latest>>

DSIQ_LATEST(seriesId) ==
  /\ pc = "idle"
  /\ handleScalar("DSIQ_LATEST", seriesId, [NoOptions EXCEPT !.mode = "latest"],
                  JsUndefined)

\* DSIQ_VALUE (lines 732-738).
DSIQ_VALUE(seriesId, date) ==
  /\ pc = "idle"
  /\ LET normalizedDate == normalizeDateInput(date)
     IN IF ~normalizedDate.ok \/ ~IsSome(normalizedDate.value)
        THEN /\ call' = [NoCall EXCEPT !.fn = "DSIQ_VALUE",
                                       !.args = [NoArgs EXCEPT !.seriesId = seriesId,
                                                               !.date = date]]
             /\ EndEarly(Throw(IF ~normalizedDate.ok THEN normalizedDate.error
                               ELSE "Date is required for DSIQ_VALUE."))
             /\ httpCalls' = 0
             /\ UNCHANGED <<apiKey, latest>>
        ELSE handleScalar("DSIQ_VALUE", seriesId,
                          [NoOptions EXCEPT !.mode = "value", !.date = normalizedDate.value],
                          date)

DSIQ_YOY(seriesId) ==
  /\ pc = "idle"
  /\ handleScalar("DSIQ_YOY", seriesId, [NoOptions EXCEPT !.mode = "yoy"],
                  JsUndefined)

\* DSIQ_META up to its fetch (lines 750-756).
DSIQ_META(seriesId, field) ==
  /\ pc = "idle"
  /\ LET series == normalizeSeriesId(seriesId)
         normalizedField == normalizeOptionalString(field)
     IN /\ call' = [NoCall EXCEPT !.fn = "DSIQ_META", !.series = series.value,
                                  !.field = IF IsSome(normalizedField)
                                            THEN Get(normalizedField) ELSE "",
                                  !.args = [NoArgs EXCEPT !.seriesId = seriesId,
                                                          !.field = field]]
        /\ IF ~series.ok THEN EndEarly(Throw(series.error))
           ELSE IF ~IsSome(normalizedField)
           THEN EndEarly(Throw("Field is required for DSIQ_META."))
           ELSE /\ StartFetch(series.value, [NoOptions EXCEPT !.mode = "meta"])
                /\ outcome' = NoOutcome
  /\ httpCalls' = 0
  /\ UNCHANGED <<apiKey, latest>>

\* getPreviewData up to its first fetch (line 897): the id is used as given.
getPreviewData(seriesId) ==
  /\ pc = "idle"
  /\ call' = [NoCall EXCEPT !.fn = "getPreviewData", !.series = seriesId, !.phase = 1,
                            !.args = [NoArgs EXCEPT !.seriesId = JsString(seriesId)]]
  /\ StartFetch(seriesId, [NoOptions EXCEPT !.mode = "latest"])
  /\ outcome' = NoOutcome
  /\ httpCalls' = 0
  /\ UNCHANGED <<apiKey, latest>>

\* ------------------------------------------- entry points after the fetch
\* if (errorMessage): a set, non-empty message.
Truthy(message) == IsSome(message) /\ Get(message) /= ""
\* response?.data etc.: a member of the response, when there is one.
ResponseMember(res, name) ==
  IF IsSome(res.response) THEN Member(Get(res.response), name) ELSE None

\* The rows pushed at lines 714-716 (the warning sign that opens the second
\* row is left out of the text).
NoticeRows ==
  << <<"", "">>,
     <<"Free tier limited to 100 most recent observations", "">>,
     <<"Upgrade for full access: datasetiq.com/pricing", "">> >>

\* DSIQ after its fetch (lines 705-719); key is the stored key read at line 712.
DsiqTail(res, key) ==
  IF Truthy(res.errorMessage) THEN Throw(Get(res.errorMessage))
  ELSE LET data == IF IsSome(ResponseMember(res, "data"))
                   THEN Get(ResponseMember(res, "data")) ELSE <<>>
           grid == buildArrayResult([isArray |-> TRUE, items |-> data])
       IN Return([NoValue EXCEPT !.grid =
                    IF ~IsSome(key) /\ Len(data) >= FreeTierNotice
                    THEN grid \o NoticeRows ELSE grid])

\* handleScalar after its fetch (lines 1047-1053).
ScalarTail(res) ==
  IF Truthy(res.errorMessage) THEN Throw(Get(res.errorMessage))
  ELSE IF ~IsSome(ResponseMember(res, "scalar")) THEN Throw("Value not available.")
  ELSE Return([NoValue EXCEPT !.scalar = ResponseMember(res, "scalar")])

MetadataNotFound(field) ==
  CASE field = "title" -> "Metadata \"title\" not found."
    [] field = "frequency" -> "Metadata \"frequency\" not found."
    [] field = "toString" -> "Metadata \"toString\" not found."
    [] OTHER -> "Metadata not found."

\* The properties every object parsed from JSON inherits from
\* Object.prototype, of the field names of the model.
InheritedProperties == {"toString"}
\* normalizedField in dataset (line 761): own and inherited properties.
HasProperty(dataset, field) ==
  field \in DOMAIN dataset \/ field \in InheritedProperties
\* dataset[normalizedField] (line 765); an inherited property is a function.
ReadProperty(dataset, field) ==
  IF field \in DOMAIN dataset THEN dataset[field]
  ELSE "function toString() { [native code] }"



\* DSIQ_META after its fetch (lines 757-765).
MetaTail(res, field) ==
  LET dataset == ResponseMember(res, "dataset") IN
  IF Truthy(res.errorMessage) THEN Throw(Get(res.errorMessage))
  ELSE IF ~IsSome(dataset) \/ ~HasProperty(Get(dataset), field)
  THEN Throw(MetadataNotFound(field))
  ELSE Return([NoValue EXCEPT !.field = Some(ReadProperty(Get(dataset), field))])

\* KeepLatest, had the status of the first response not been kept.
KeepLatest_StatusLost(res) ==
  [errorMessage |-> res.errorMessage,
   scalar |-> ResponseMember(res, "scalar"),
   status |-> None,
   message |-> ResponseMember(res, "message")]

\* getPreviewData keeps of its first fetch what it reads later (lines 900-913).
KeepLatest(res) ==
  [errorMessage |-> res.errorMessage,
   scalar |-> ResponseMember(res, "scalar"),
   status |-> ResponseMember(res, "status"),
   message |-> ResponseMember(res, "message")]

\* getPreviewData after its second fetch (lines 900-914).
PreviewTail(first, res) ==
  IF Truthy(first.errorMessage) \/ Truthy(res.errorMessage)
  THEN Return([NoValue EXCEPT !.preview = Some(
         [error |-> IF Truthy(first.errorMessage) THEN first.errorMessage
                    ELSE res.errorMessage,
          latest |-> None, meta |-> None, isMetadataOnly |-> FALSE,
          isPending |-> FALSE, statusMessage |-> None])])
  ELSE Return([NoValue EXCEPT !.preview = Some(
         [error |-> None,
          latest |-> first.scalar,
          meta |-> ResponseMember(res, "dataset"),
          isMetadataOnly |-> first.status = Some("metadata_only"),
          isPending |-> first.status = Some("ingestion_pending"),
          statusMessage |-> first.message])])

ScalarFunctions == {"DSIQ_LATEST", "DSIQ_VALUE", "DSIQ_YOY"}

\* The caller's code from the return of fetchSeries to its own end.
AfterFetch(c, first, res, key) ==
  CASE c.fn = "DSIQ" -> DsiqTail(res, key)
    [] c.fn \in ScalarFunctions -> ScalarTail(res)
    [] c.fn = "DSIQ_META" -> MetaTail(res, c.field)
    [] OTHER -> PreviewTail(Get(first), res)

\* fetchSeries returns res to its caller, which runs to its end or, in
\* getPreviewData, to its second fetch.
FetchReturns(res) ==
  /\ result' = Some(res)
  /\ IF call.fn = "getPreviewData" /\ call.phase = 1
     THEN pc' = "returned" /\ outcome' = NoOutcome
     ELSE pc' = "done" /\ outcome' = AfterFetch(call, latest, res, apiKey)

\* --------------------------------------------------------- the fetch loop
\* What UrlFetchApp.fetch may answer at the given attempt, with the value of
\* Date.now().  The loop body reads the headers (and the clock) only of a
\* response it retries, and the body only of a response it does not retry, so
\* the part it does not read is held fixed.
ProviderResponses(att) ==
  {[status |-> st, bodyText |-> b, headers |-> <<>>, now |-> 0] :
     st \in {x \in Statuses : ~ShouldRetry(att, x)}, b \in BodyTexts}
  \cup
  {[status |-> st, bodyText |-> [malformed |-> FALSE, json |-> EmptyObject],
    headers |-> h, now |-> n] :
     st \in {x \in Statuses : ShouldRetry(att, x)}, h \in HeaderSets, n \in Nows}

\* One pass of the loop of fetchSeries (lines 1090-1139): UrlFetchApp.fetch
\* answers with any status, body and headers.
LoopIteration ==
  /\ pc = "fetch"
  /\ IF attempt < MaxAttempts
     THEN \E r \in ProviderResponses(attempt) :
            LET st == r.status
                bodyText == r.bodyText
                rawHeaders == r.headers
                step == LoopBody(options.mode, attempt, st, bodyText, rawHeaders, r.now)
            IN /\ httpCalls' = httpCalls + 1
               /\ events' = Append(events, HttpEvent)
               /\ status' = Some(st)
               /\ call' = [call EXCEPT !.malformed = bodyText.malformed,
                                       !.requests = Append(@, RequestSent(request, apiKey)),
                                       !.keys = Append(@, apiKey)]
               /\ CASE step.kind = "sleep" ->
                         /\ pc' = "sleep"
                         /\ headers' = Some(rawHeaders)
                         /\ retryAfterMs' = step.retryAfterMs
                         /\ UNCHANGED <<body, result, outcome>>
                    [] step.kind = "return" ->
                         /\ body' = Some(parseJson(bodyText))
                         /\ FetchReturns(step.result)
                         /\ UNCHANGED <<headers, retryAfterMs>>
                    [] OTHER ->
                         /\ body' = Some(parseJson(bodyText))
                         /\ pc' = "done"
                         /\ outcome' = Throw("TypeError: Cannot read properties of null")
                         /\ UNCHANGED <<headers, retryAfterMs, result>>
     ELSE /\ FetchReturns(Failure("Unable to reach DataSetIQ. Please try again."))
          /\ UNCHANGED <<httpCalls, events, status, body, headers, retryAfterMs, call>>
  /\ UNCHANGED <<apiKey, userProperties, options, request, attempt, latest>>

\* UrlFetchApp.fetch raises (no connection, time out): nothing catches it.
UrlFetchRaises ==
  /\ pc = "fetch"
  /\ attempt < MaxAttempts
  /\ httpCalls' = httpCalls + 1
  /\ events' = Append(events, HttpEvent)
  /\ pc' = "done"
  /\ outcome' = Throw("Exception: Address unavailable")
  /\ call' = [call EXCEPT !.requests = Append(@, RequestSent(request, apiKey)),
                          !.keys = Append(@, apiKey)]
  /\ UNCHANGED <<apiKey, userProperties, options, request, attempt, status, body, headers,
                 retryAfterMs, result, latest>>

\* Sleep, had the pause been the fixed base delay.
Sleep_HardCodedDelay ==
  /\ pc = "sleep"
  /\ events' = Append(events, SleepEvent(BaseDelayMs))
  /\ attempt' = NextAttempt(attempt)
  /\ status' = None
  /\ headers' = None
  /\ retryAfterMs' = 0
  /\ pc' = "fetch"
  /\ UNCHANGED <<apiKey, userProperties, call, options, request, body, result, latest, httpCalls,
                 outcome>>

\* Utilities.sleep(retryAfterMs) returns; attempt += 1; continue (lines 1129-1131).
Sleep ==
  /\ pc = "sleep"
  /\ events' = Append(events, SleepEvent(retryAfterMs))
  /\ attempt' = NextAttempt(attempt)
  /\ status' = None
  /\ headers' = None
  /\ retryAfterMs' = 0
  /\ pc' = "fetch"
  /\ UNCHANGED <<apiKey, userProperties, call, options, request, body, result, latest, httpCalls,
                 outcome>>

\* getPreviewData, line 898: the second fetch, for the metadata.
PreviewSecondFetch ==
  /\ pc = "returned"
  /\ latest' = Some(KeepLatest(Get(result)))
  /\ call' = [call EXCEPT !.phase = 2,
                          !.sent = IF IsSome(body)
                                   THEN [status |-> Member(Get(body), "status"),
                                         message |-> Member(Get(body), "message")]
                                   ELSE NoHint,
                          !.malformed = FALSE,
                          !.requests = <<>>,
                          !.keys = <<>>]
  /\ StartFetch(call.series, [NoOptions EXCEPT !.mode = "meta"])
  /\ UNCHANGED <<apiKey, userProperties, httpCalls, outcome>>

\* The execution is over: the host shows what the entry point returned or raised.
EndExecution ==
  /\ pc = "done"
  /\ pc' = "idle"
  /\ call' = NoCall
  /\ options' = NoOptions
  /\ request' = NoRequest
  /\ attempt' = 0
  /\ status' = None
  /\ body' = None
  /\ headers' = None
  /\ retryAfterMs' = 0
  /\ result' = None
  /\ latest' = None
  /\ events' = <<>>
  /\ httpCalls' = 0
  /\ outcome' = NoOutcome
  /\ UNCHANGED <<apiKey, userProperties>>

\* ------------------------------------------------------------ the key store
Ok == Return([NoValue EXCEPT !.msg = "ok"])

\* saveApiKey, had it stored the key as it was handed over.
saveApiKey_Untrimmed(key) ==
  /\ pc = "idle"
  /\ LET trimmed == normalizeOptionalString(key)
     IN IF ~IsSome(trimmed)
        THEN /\ outcome' = Throw("API key is required.")
             /\ UNCHANGED apiKey
        ELSE /\ apiKey' = Some(key.s)
             /\ outcome' = Ok
  /\ call' = [NoCall EXCEPT !.fn = "saveApiKey", !.args = [NoArgs EXCEPT !.key = key]]
  /\ pc' = "done"
  /\ UNCHANGED <<userProperties, options, request, attempt, status, body, headers,
                 retryAfterMs, result, latest, events, httpCalls>>

\* saveApiKey (lines 771-778).
saveApiKey(key) ==
  /\ pc = "idle"
  /\ LET trimmed == normalizeOptionalString(key)
     IN IF ~IsSome(trimmed)
        THEN /\ outcome' = Throw("API key is required.")
             /\ UNCHANGED apiKey
        ELSE /\ apiKey' = trimmed
             /\ outcome' = Ok
  /\ call' = [NoCall EXCEPT !.fn = "saveApiKey", !.args = [NoArgs EXCEPT !.key = key]]
  /\ pc' = "done"
  /\ UNCHANGED <<userProperties, options, request, attempt, status, body, headers,
                 retryAfterMs, result, latest, events, httpCalls>>

\* clearApiKey (lines 783-786).
clearApiKey ==
  /\ pc = "idle"
  /\ apiKey' = None
  /\ outcome' = Ok
  /\ call' = [NoCall EXCEPT !.fn = "clearApiKey"]
  /\ pc' = "done"
  /\ UNCHANGED <<userProperties, options, request, attempt, status, body, headers,
                 retryAfterMs, result, latest, events, httpCalls>>

\* ------------------------------------------------- the sidebar alongside
\* The sidebar calls the server functions in executions of their own, which
\* the host runs alongside a formula that is being computed; of such an
\* execution the write to the user properties is what the formula can see.
\* saveApiKey (lines 771-778) with a key that passes its check.
SidebarSavesApiKey(key) ==
  /\ IsSome(normalizeOptionalString(key))
  /\ apiKey' = normalizeOptionalString(key)
  /\ UNCHANGED <<userProperties, execution>>

\* clearApiKey (lines 783-786)
SidebarClearsApiKey ==
  /\ apiKey' = None
  /\ UNCHANGED <<userProperties, execution>>

\* addFavorite (lines 1004-1014)
SidebarAddsFavorite(seriesId) ==
  /\ userProperties' =
       [userProperties EXCEPT !.favorites = FavoritesWith(@, seriesId)]
  /\ UNCHANGED <<apiKey, execution>>

\* removeFavorite (lines 1016-1021)
SidebarRemovesFavorite(seriesId) ==
  /\ userProperties' = [userProperties EXCEPT !.favorites = Without(@, seriesId)]
  /\ UNCHANGED <<apiKey, execution>>

\* insertFormulaIntoActiveCell (lines 966-993): the formula goes to the sheet
\* and the id to the recents.
SidebarInsertsFormula(seriesId) ==
  /\ userProperties' = [userProperties EXCEPT !.recents = addToRecent(@, seriesId)]
  /\ UNCHANGED <<apiKey, execution>>

\* saveTemplate (lines 1327-1343); the id of the new template is the time of
\* the clock.
saveTemplate(name, now) ==
  /\ Len(userProperties.templates) < MaxTemplates
  /\ userProperties' =
       [userProperties EXCEPT !.templates =
          Slice(<<[id |-> now, name |-> name]>> \o @, TemplatesKept)]
  /\ UNCHANGED <<apiKey, execution>>

\* deleteTemplate (lines 1381-1386)
deleteTemplate(templateId) ==
  /\ userProperties' =
       [userProperties EXCEPT !.templates = SelectSeq(@, LAMBDA t : t.id /= templateId)]
  /\ UNCHANGED <<apiKey, execution>>

\* A formula is computed while the sidebar is at work on the favorites, the
\* recents and the templates; the key is saved and cleared between formulas.
NextSidebar ==
  \/ \E seriesId \in FormulaIds, frequency \in {JsNull}, startDate \in {JsUndefined} :
       DSIQ(seriesId, frequency, startDate)
  \/ \E seriesId \in FormulaIds : DSIQ_LATEST(seriesId)
  \/ \E seriesId \in FormulaIds, date \in {JsUndefined, JsDate(Some(0))} :
       DSIQ_VALUE(seriesId, date)
  \/ \E seriesId \in FormulaIds : DSIQ_YOY(seriesId)
  \/ \E seriesId \in FormulaIds, field \in {JsString("title")} : DSIQ_META(seriesId, field)
  \/ LoopIteration
  \/ UrlFetchRaises
  \/ Sleep
  \/ EndExecution
  \/ \E key \in KeyInputs : saveApiKey(key)
  \/ clearApiKey
  \/ \E seriesId \in PreviewIds : SidebarAddsFavorite(seriesId)
  \/ \E seriesId \in PreviewIds : SidebarRemovesFavorite(seriesId)
  \/ \E seriesId \in PreviewIds : SidebarInsertsFormula(seriesId)
  \/ \E name \in {"Prices"}, now \in {0} : saveTemplate(name, now)
  \/ \E templateId \in {0} : deleteTemplate(templateId)

SpecSidebar == Init /\ [][NextSidebar]_vars

\* A formula is computed while the sidebar saves and clears the key.
NextKeyChange ==
  \/ \E seriesId \in FormulaIds, frequency \in {JsNull}, startDate \in {JsUndefined} :
       DSIQ(seriesId, frequency, startDate)
  \/ \E seriesId \in FormulaIds : DSIQ_LATEST(seriesId)
  \/ \E seriesId \in FormulaIds, date \in {JsUndefined, JsDate(Some(0))} :
       DSIQ_VALUE(seriesId, date)
  \/ \E seriesId \in FormulaIds : DSIQ_YOY(seriesId)
  \/ \E seriesId \in FormulaIds, field \in {JsString("title")} : DSIQ_META(seriesId, field)
  \/ LoopIteration
  \/ UrlFetchRaises
  \/ Sleep
  \/ EndExecution
  \/ \E key \in KeyInputs : SidebarSavesApiKey(key)
  \/ SidebarClearsApiKey

SpecKeyChange == Init /\ [][NextKeyChange]_vars

\* ----------------------------------------------------------- specification
Next ==
  \/ \E seriesId \in SeriesIdInputs, frequency \in FrequencyInputs,
        startDate \in DateInputs : DSIQ(seriesId, frequency, startDate)
  \/ \E seriesId \in SeriesIdInputs : DSIQ_LATEST(seriesId)
  \/ \E seriesId \in SeriesIdInputs, date \in DateInputs : DSIQ_VALUE(seriesId, date)
  \/ \E seriesId \in SeriesIdInputs : DSIQ_YOY(seriesId)
  \/ \E seriesId \in SeriesIdInputs, field \in FieldInputs : DSIQ_META(seriesId, field)
  \/ \E seriesId \in PreviewIds : getPreviewData(seriesId)
  \/ LoopIteration
  \/ UrlFetchRaises
  \/ Sleep
  \/ PreviewSecondFetch
  \/ EndExecution
  \/ \E key \in KeyInputs : saveApiKey(key)
  \/ clearApiKey

Spec == Init /\ [][Next]_vars

\* ------------------------------------------------- the error translator alone
\* mapError is exported for the tests (line 1438): it is applied to every
\* code, status and provider message below, handed over as a status and an
\* error object.
MapErrorStatuses == {100, 200, 204, 302, 400, 401, 404, 429, 430, 499, 500, 503}
MapErrorArguments ==
  {[code |-> c, status |-> st, fallback |-> m] :
     c \in {None} \cup {Some(x) : x \in ErrorCodes},
     st \in MapErrorStatuses,
     m \in {None} \cup {Some(x) : x \in ProviderMessages}}

InitMapError ==
  /\ \E a \in MapErrorArguments :
       /\ status = Some(a.status)
       /\ body = Some(JsObject(Some([truthy |-> TRUE, code |-> a.code,
                                     message |-> a.fallback]),
                               None, None, None, None, None))
  /\ call = [NoCall EXCEPT !.fn = "mapError"]
  /\ apiKey = None
  /\ userProperties = NoProperties
  /\ pc = "idle"
  /\ options = NoOptions
  /\ request = NoRequest
  /\ attempt = 0
  /\ headers = None
  /\ retryAfterMs = 0
  /\ result = None
  /\ latest = None
  /\ events = <<>>
  /\ httpCalls = 0
  /\ outcome = NoOutcome

ApplyMapError ==
  /\ pc = "idle"
  /\ call.fn = "mapError"
  /\ pc' = "done"
  /\ outcome' = Return([NoValue EXCEPT !.msg =
                          mapError(Get(Get(body).error).code, Get(status),
                                   Get(Get(body).error).message)])
  /\ UNCHANGED <<apiKey, userProperties, call, options, request, attempt, status, body, headers,
                 retryAfterMs, result, latest, events, httpCalls>>

NextMapError == ApplyMapError

SpecMapError == InitMapError /\ [][NextMapError]_vars

\* ------------------------------------------ the response normalizer alone
\* The success branch of the loop body on one list of observations sent in
\* the two payload shapes, under every mode: by the fetchSeries in effect
\* (lines 1097-1123) and by the earlier fetchSeries of the file (427-429).
Modes == {"table", "latest", "value", "yoy", "meta"}
LogicalObservations == {<<"2024-01-01", 300>>, <<"2023-01-01", 290>>}
LogicalLists == UNION {[1..n -> LogicalObservations] : n \in 0..MaxObs}
\* data: [{date, value}, ...]
AsObjectList(l) == [i \in DOMAIN l |-> ObjectItem(l[i][1], l[i][2])]
\* data: [[date, value], ...]
AsPairList(l) == [i \in DOMAIN l |-> Array2(Some(l[i][1]), Some(l[i][2]))]

\* The earlier fetchSeries on a 2xx body without error (line 428):
\* return { response: body }.
EarlierSuccess(parsed) == Success(parsed)

\* body holds the object-list payload and latest the pair-list payload.
InitNormalizer ==
  /\ \E m \in Modes, l \in LogicalLists, ds \in {None, Some(Dataset1)},
        sc \in {None, Some(7)} :
       /\ options = [NoOptions EXCEPT !.mode = m]
       /\ body = Some(JsObject(None, Some(AsObjectList(l)), ds, sc, None, None))
       /\ latest = Some(JsObject(None, Some(AsPairList(l)), ds, sc, None, None))
  /\ call = [NoCall EXCEPT !.fn = "normalize"]
  /\ apiKey = None
  /\ userProperties = NoProperties
  /\ pc = "idle"
  /\ request = NoRequest
  /\ attempt = 0
  /\ status = Some(200)
  /\ headers = None
  /\ retryAfterMs = 0
  /\ result = None
  /\ events = <<>>
  /\ httpCalls = 0
  /\ outcome = NoOutcome

\* result: what the fetchSeries in effect returns for each payload, and what
\* the earlier fetchSeries returns for the pair-list payload.
ApplyNormalizer ==
  /\ pc = "idle"
  /\ call.fn = "normalize"
  /\ pc' = "done"
  /\ result' = Some(
       [objects |-> LoopBody(options.mode, 0, Get(status),
                             [malformed |-> FALSE, json |-> Get(body)], <<>>, 0).result,
        pairs |-> LoopBody(options.mode, 0, Get(status),
                           [malformed |-> FALSE, json |-> Get(latest)], <<>>, 0).result,
        earlier |-> EarlierSuccess(Get(latest))])
  /\ UNCHANGED <<apiKey, userProperties, call, options, request, attempt, status, body, headers,
                 retryAfterMs, latest, events, httpCalls, outcome>>

NextNormalizer == ApplyNormalizer

SpecNormalizer == InitNormalizer /\ [][NextNormalizer]_vars

\* ------------------------------------------- buildArrayResult on its own
TableRows ==
  {Array2(Some(d), Some(v)) : d \in {"2024-01-01", "2023-01-01"}, v \in {300, 290, 7}}
TableLists == UNION {[1..n -> TableRows] : n \in 0..MaxRows}
\* What buildArrayResult is handed: a list of rows, or something that is no array.
TableInputs ==
  {[isArray |-> TRUE, items |-> l] : l \in TableLists}
  \cup {[isArray |-> FALSE, items |-> <<>>]}

\* latest holds the input as it was handed over, result the same list as the
\* caller sees it after the call.
InitTable ==
  /\ \E data \in TableInputs :
       /\ latest = Some(data)
       /\ result = Some(data)
  /\ call = [NoCall EXCEPT !.fn = "buildArrayResult"]
  /\ apiKey = None
  /\ userProperties = NoProperties
  /\ pc = "idle"
  /\ options = NoOptions
  /\ request = NoRequest
  /\ attempt = 0
  /\ status = None
  /\ body = None
  /\ headers = None
  /\ retryAfterMs = 0
  /\ events = <<>>
  /\ httpCalls = 0
  /\ outcome = NoOutcome

ApplyTable ==
  /\ pc = "idle"
  /\ call.fn = "buildArrayResult"
  /\ pc' = "done"
  /\ outcome' = Return([NoValue EXCEPT !.grid = buildArrayResult(Get(result))])
  /\ result' = Some(DataAfterBuild(Get(result)))
  /\ UNCHANGED <<apiKey, userProperties, call, options, request, attempt, status, body, headers,
                 retryAfterMs, latest, events, httpCalls>>

NextTable == ApplyTable

SpecTable == InitTable /\ [][NextTable]_vars

\* ------------------------------------------- favorites and recents alone
\* The sidebar's calls on the two lists, each an execution of its own that
\* runs to its end before the next begins. The ids are strings, which
\* JSON.stringify and JSON.parse give back as they were, so that a list stands
\* for the property that holds it.
SeriesNames == <<"GDP", "CPI", "UNRATE", "M2SL", "FEDFUNDS">>
StoreIds == {SeriesNames[i] : i \in 1..MaxIds}
\* The lists of ids insertMultipleSeries is handed.
BatchInputs == UNION {[1..n -> StoreIds] : n \in 0..MaxBatch}
\* Ids of earlier calls, the first the latest.
FillerIds ==
  <<
     "S01", "S02", "S03", "S04", "S05", "S06", "S07", "S08", "S09", "S10",
     "S11", "S12", "S13", "S14", "S15", "S16", "S17", "S18", "S19", "S20",
     "S21", "S22", "S23", "S24", "S25", "S26", "S27", "S28", "S29", "S30",
     "S31", "S32", "S33", "S34", "S35", "S36", "S37", "S38", "S39", "S40",
     "S41", "S42", "S43", "S44", "S45", "S46", "S47", "S48"
  >>
\* The favorites after addFavorite of the filler ids, the last first: short
\* of the 50 kept by one id less than the sidebar has.
FilledFavorites == Slice(FillerIds, FavoritesKept - MaxIds + 1)
\* The recents after insertFormulaIntoActiveCell of the filler ids.
FilledRecents == Slice(FillerIds, RecentsKept - MaxIds + 1)

\* addFavorite (lines 1004-1014)
addFavorite(seriesId) ==
  /\ pc = "idle"
  /\ userProperties' =
       [userProperties EXCEPT !.favorites = FavoritesWith(@, seriesId)]
  /\ call' = [NoCall EXCEPT !.fn = "addFavorite", !.ids = <<seriesId>>,
                            !.read = userProperties.favorites]
  /\ outcome' = Ok
  /\ pc' = "done"
  /\ UNCHANGED <<apiKey, options, request, attempt, status, body, headers,
                 retryAfterMs, result, latest, events, httpCalls>>

\* removeFavorite (lines 1016-1021)
removeFavorite(seriesId) ==
  /\ pc = "idle"
  /\ userProperties' = [userProperties EXCEPT !.favorites = Without(@, seriesId)]
  /\ call' = [NoCall EXCEPT !.fn = "removeFavorite", !.ids = <<seriesId>>,
                            !.read = userProperties.favorites]
  /\ outcome' = Ok
  /\ pc' = "done"
  /\ UNCHANGED <<apiKey, options, request, attempt, status, body, headers,
                 retryAfterMs, result, latest, events, httpCalls>>

\* insertFormulaIntoActiveCell (lines 966-993): whatever the function name,
\* a formula goes to the active cell and the id to the recents.
insertFormulaIntoActiveCell(seriesId) ==
  /\ pc = "idle"
  /\ userProperties' = [userProperties EXCEPT !.recents = addToRecent(@, seriesId)]
  /\ call' = [NoCall EXCEPT !.fn = "insertFormulaIntoActiveCell", !.ids = <<seriesId>>,
                            !.read = userProperties.recents]
  /\ outcome' = Ok
  /\ pc' = "done"
  /\ UNCHANGED <<apiKey, options, request, attempt, status, body, headers,
                 retryAfterMs, result, latest, events, httpCalls>>

\* insertMultipleSeries (lines 1391-1404): a formula for each id, one cell
\* under the other, and each id to the recents.
insertMultipleSeries(seriesIds) ==
  /\ pc = "idle"
  /\ userProperties' = [userProperties EXCEPT !.recents = addEachToRecent(@, seriesIds)]
  /\ call' = [NoCall EXCEPT !.fn = "insertMultipleSeries", !.ids = seriesIds,
                            !.read = userProperties.recents]
  /\ outcome' = Ok
  /\ pc' = "done"
  /\ UNCHANGED <<apiKey, options, request, attempt, status, body, headers,
                 retryAfterMs, result, latest, events, httpCalls>>

\* The store is empty, or holds what earlier calls left in it.
InitLists(favorites, recents) ==
  /\ apiKey = None
  /\ userProperties = [NoProperties EXCEPT !.favorites = favorites, !.recents = recents]
  /\ pc = "idle"
  /\ call = NoCall
  /\ options = NoOptions
  /\ request = NoRequest
  /\ attempt = 0
  /\ status = None
  /\ body = None
  /\ headers = None
  /\ retryAfterMs = 0
  /\ result = None
  /\ latest = None
  /\ events = <<>>
  /\ httpCalls = 0
  /\ outcome = NoOutcome

InitFavorites == \E favorites \in {<<>>, FilledFavorites} : InitLists(favorites, <<>>)

NextFavorites ==
  \/ \E seriesId \in StoreIds : addFavorite(seriesId)
  \/ \E seriesId \in StoreIds : removeFavorite(seriesId)
  \/ EndExecution

SpecFavorites == InitFavorites /\ [][NextFavorites]_vars

InitRecents == \E recents \in {<<>>, FilledRecents} : InitLists(<<>>, recents)

NextRecents ==
  \/ \E seriesId \in StoreIds : insertFormulaIntoActiveCell(seriesId)
  \/ \E seriesIds \in BatchInputs : insertMultipleSeries(seriesIds)
  \/ EndExecution

SpecRecents == InitRecents /\ [][NextRecents]_vars

\* ------------------------------------------------------------------ claims
HttpCount == CountEvents(events, "http")
SleepCount == CountEvents(events, "sleep")
\* fetchSeries has returned to its caller.
Returned == IsSome(result)

\* C1: a fetchSeries call that returns hands back exactly one of a response
\* and an errorMessage: never both, never neither.
C1_ExactlyOneOutcome ==
  Returned =>
    /\ IsSome(Get(result).response) \/ IsSome(Get(result).errorMessage)
    /\ ~(IsSome(Get(result).response) /\ IsSome(Get(result).errorMessage))

\* A fetch that failed after its retry.
C1_Witness ==
  /\ Returned
  /\ IsSome(Get(result).errorMessage)
  /\ ~IsSome(Get(result).response)
  /\ HttpCount = 2

\* C2: the first response sends the fetch to its retry exactly when its status
\* is 429 or at least 500; a second HTTP call is issued only after that retry
\* decision; whatever the second response is, the fetch ends with it and no
\* third call is issued.
C2_RetryIffTransient ==
  [][/\ (HttpCount = 0 /\ HttpCount' = 1 /\ IsSome(status')) =>
          ((pc' = "sleep") <=> (Get(status') = 429 \/ Get(status') >= 500))
     /\ pc = "sleep" => (pc' = "fetch" /\ attempt' = 1 /\ HttpCount' = 1)
     /\ (HttpCount = 1 /\ HttpCount' = 2) =>
          /\ attempt = 1
          /\ events[Len(events)].type = "sleep"
          /\ pc' \in {"done", "returned"}
     /\ HttpCount' <= 2]_vars

\* A second response that is again transient, after which the fetch has ended.
C2_Witness ==
  /\ HttpCount = 2
  /\ Returned
  /\ status = Some(503)
  /\ pc = "done"

\* C3: a completed fetchSeries call has issued one or two HTTP calls, and has
\* slept once less than it has called.
C3_CallsAndSleeps ==
  Returned =>
    /\ HttpCount \in {1, 2}
    /\ SleepCount = HttpCount - 1

\* A completed fetch on the retry path: two calls, one sleep.
C3_Witness == Returned /\ HttpCount = 2 /\ SleepCount = 1

\* The messages of the fixed code table, by code.
KnownCodeMessage ==
  [NO_KEY |-> "Please open DataSetIQ sidebar to connect.",
   INVALID_KEY |-> "Invalid API Key. Reconnect at datasetiq.com/dashboard/api-keys",
   REVOKED_KEY |-> "API Key revoked. Get a new key at datasetiq.com/dashboard/api-keys",
   FREE_LIMIT |-> "Free plan limit reached. Upgrade at datasetiq.com/pricing",
   QUOTA_EXCEEDED |-> "Daily Quota Exceeded. Upgrade at datasetiq.com/pricing",
   PLAN_REQUIRED |-> "Upgrade required. Visit datasetiq.com/pricing"]
RateLimitedMessage == "Rate limited. Please retry shortly."
ServerUnavailableMessage == "Server unavailable. Please retry."
UnableToFetchMessage == "Unable to fetch data."

\* The decision table of the error translator, first match wins.
TableMessage(code, st, fallback) ==
  IF IsSome(code) /\ Get(code) \in DOMAIN KnownCodeMessage
  THEN KnownCodeMessage[Get(code)]
  ELSE IF st = 429 THEN RateLimitedMessage
  ELSE IF st >= 500 THEN ServerUnavailableMessage
  ELSE IF IsSome(fallback) /\ Get(fallback) /= "" THEN Get(fallback)
  ELSE UnableToFetchMessage

\* The error object of the last body read, when it carries one.
BodyHasErrorObject ==
  /\ IsSome(body)
  /\ Get(body).kind = "object"
  /\ IsSome(Get(body).error)
  /\ Get(Get(body).error).truthy
BodyErrorCode == IF BodyHasErrorObject THEN Get(Get(body).error).code ELSE None
BodyErrorMessage == IF BodyHasErrorObject THEN Get(Get(body).error).message ELSE None

\* The first response is a terminal provider error: a 4xx other than 429, or
\* a 2xx whose body carries an error object.
TerminalFirstResponse ==
  /\ attempt = 0
  /\ IsSome(status)
  /\ \/ (Get(status) >= 400 /\ Get(status) < 500 /\ Get(status) /= 429)
     \/ (Get(status) >= 200 /\ Get(status) < 300 /\ BodyHasErrorObject)

\* C4: a terminal provider error on the first attempt is not retried: the
\* fetch has made one HTTP call and no sleep, and returns the translation of
\* the body's code, the status and the body's message.
C4_TerminalNotRetried ==
  TerminalFirstResponse =>
    /\ pc /= "sleep"
    /\ Returned
    /\ HttpCount = 1
    /\ SleepCount = 0
    /\ Get(result).errorMessage =
         Some(TableMessage(BodyErrorCode, Get(status), BodyErrorMessage))
    /\ (Get(status) = 401 /\ BodyErrorCode = Some("INVALID_KEY")) =>
         Get(result).errorMessage =
           Some("Invalid API Key. Reconnect at datasetiq.com/dashboard/api-keys")

\* A 200 whose body carries an error object: one call, the fixed message.
C4_Witness ==
  /\ TerminalFirstResponse
  /\ Get(status) = 200
  /\ BodyErrorCode = Some("INVALID_KEY")
  /\ Returned
  /\ HttpCount = 1
  /\ Get(result).errorMessage =
       Some("Invalid API Key. Reconnect at datasetiq.com/dashboard/api-keys")

\* The last response had a transient status.
TransientStatus == IsSome(status) /\ (Get(status) = 429 \/ Get(status) >= 500)
KnownCode == IsSome(BodyErrorCode) /\ Get(BodyErrorCode) \in DOMAIN KnownCodeMessage

\* C5, as stated: when the first attempt was transient and the retry fails
\* again with a transient status, the errorMessage is one of the two generic
\* retry-later messages, for every body of the second response.
C5_AlwaysRetryLater ==
  (Returned /\ HttpCount = 2 /\ TransientStatus) =>
    Get(result).errorMessage \in
      {Some(RateLimitedMessage), Some(ServerUnavailableMessage)}

\* C5, amended: ... the errorMessage is the rate-limit message (429) or the
\* server-unavailable message (>= 500) for every second body that carries none
\* of the six known error codes; a known code gives its own fixed message.
C5_RetryLaterUnlessKnownCode ==
  (Returned /\ HttpCount = 2 /\ TransientStatus) =>
    /\ ~IsSome(Get(result).response)
    /\ IF KnownCode
       THEN Get(result).errorMessage = Some(KnownCodeMessage[Get(BodyErrorCode)])
       ELSE /\ Get(status) = 429 => Get(result).errorMessage = Some(RateLimitedMessage)
            /\ Get(status) >= 500 =>
                 Get(result).errorMessage = Some(ServerUnavailableMessage)

\* The retry answered 429 with an unknown code and a provider message: the
\* generic rate-limit message is returned.
C5_Witness ==
  /\ Returned
  /\ HttpCount = 2
  /\ status = Some(429)
  /\ BodyErrorCode = Some("UNKNOWN")
  /\ BodyErrorMessage = Some("Series not found.")
  /\ Get(result).errorMessage = Some(RateLimitedMessage)

\* C6: on the retry path the host calls of one fetch are, in this order, an
\* HTTP call, one sleep and a second HTTP call, and the sleep lasts the delay
\* computed from the headers of the first response.
C6_RetryOrder ==
  [][/\ pc' = "sleep" =>
          /\ events' = <<HttpEvent>>
          /\ IsSome(headers')
          /\ retryAfterMs' \in
               {computeRetryAfter(normalizeHeaders(Get(headers')), 0, now) : now \in Nows}
     /\ pc = "sleep" => events' = <<HttpEvent, SleepEvent(retryAfterMs)>>
     /\ (Len(events') = 3 /\ events' /= events) =>
          /\ Len(events) = 2
          /\ events[1] = HttpEvent
          /\ events[2].type = "sleep"
          /\ events' = Append(events, HttpEvent)
     /\ Len(events') <= 3
     /\ (pc' = "sleep" /\ headers' = Some(<< <<"retry-after", "1">> >>)) =>
          retryAfterMs' = 1000]_vars

\* 429 with retry-after: 1, then 200 with a valid body: one pause of 1000 ms
\* and a successful result.
C6_Witness ==
  /\ events = <<HttpEvent, SleepEvent(1000), HttpEvent>>
  /\ status = Some(200)
  /\ Returned
  /\ IsSome(Get(result).response)
  /\ Get(Get(result).response).data = Some(<<Pair1, Pair2>>)
  /\ pc = "done"

\* The values of the retry-after header of a response, its name compared
\* without regard to case.
RetryAfterNames == {"Retry-After", "retry-after", "RETRY-AFTER"}
RetryAfterValuesOf(raw) ==
  {raw[i][2] : i \in {j \in DOMAIN raw : raw[j][1] \in RetryAfterNames}}
\* The header values that are plain numbers, with the number.
PlainNumbers == {<<"0", 0>>, <<"1", 1>>, <<"2", 2>>, <<"-1", -1>>}
\* The header values that parse neither as a number nor as a date (an empty
\* value counts as absent).
Unparseable == {"", "soon"}

\* C7: computeRetryAfter gives n * 1000 ms for a retry-after header that is
\* the plain number n, whatever the case of its name, and 500 * 2^attempt ms
\* when the header is absent or unparseable; the fetch retries at attempt 0
\* only, so the fallback delay it sleeps is 500 ms.
C7_RetryAfterDelay ==
  pc = "sleep" =>
    LET raw == Get(headers)
        values == RetryAfterValuesOf(raw)
    IN /\ \A a \in 0..MaxAttemptArg, now \in Nows :
            LET d == computeRetryAfter(normalizeHeaders(raw), a, now)
            IN /\ \A p \in PlainNumbers : values = {p[1]} => d = p[2] * 1000
               /\ values \subseteq Unparseable => d = 500 * (2 ^ a)
       /\ attempt = 0
       /\ \A p \in PlainNumbers : values = {p[1]} => retryAfterMs = p[2] * 1000
       /\ values \subseteq Unparseable => retryAfterMs = 500

\* Retry-After: 2 on the first response: the fetch is about to sleep 2000 ms.
C7_Witness ==
  /\ pc = "sleep"
  /\ headers = Some(<< <<"Retry-After", "2">> >>)
  /\ retryAfterMs = 2000

\* C8, as stated: a retry-after header that gives a non-positive delay falls
\* back to 500 * 2^attempt ms, so the delay handed to the sleep is positive.
C8_PositiveDelay ==
  pc = "sleep" =>
    /\ retryAfterMs > 0
    /\ RetryAfterValuesOf(Get(headers)) \subseteq {"0", "-1"} =>
         retryAfterMs = 500 * (2 ^ attempt)

\* C9: mapError is the fixed decision table, first match wins: a known code
\* gives its message whatever the status; otherwise 429 gives the rate-limit
\* message; otherwise a status >= 500 the server-unavailable message;
\* otherwise the provider's non-empty message, else "Unable to fetch data.".
C9_MapErrorTable ==
  (call.fn = "mapError" /\ pc = "done") =>
    /\ outcome.value.msg = TableMessage(BodyErrorCode, Get(status), BodyErrorMessage)
    /\ BodyErrorCode = Some("REVOKED_KEY") =>
         outcome.value.msg =
           "API Key revoked. Get a new key at datasetiq.com/dashboard/api-keys"

\* REVOKED_KEY on a 429: the revoked-key message, not the rate-limit one.
C9_Witness ==
  /\ call.fn = "mapError"
  /\ pc = "done"
  /\ BodyErrorCode = Some("REVOKED_KEY")
  /\ status = Some(429)
  /\ outcome.value.msg =
       "API Key revoked. Get a new key at datasetiq.com/dashboard/api-keys"

FormulaFunctions == {"DSIQ", "DSIQ_LATEST", "DSIQ_VALUE", "DSIQ_YOY", "DSIQ_META"}

\* C10, as stated: every formula evaluation and every panel action that
\* fetches a series, getPreviewData included, performs at most two HTTP calls.
C10_AtMostTwoCalls ==
  call.fn \in FormulaFunctions \cup {"getPreviewData"} => httpCalls <= 2

\* C10, amended: every formula evaluation performs at most two HTTP calls;
\* getPreviewData runs two fetches of at most two calls each, at most four
\* calls in all.
C10_TwoCallsPerFetch ==
  /\ call.fn \in FormulaFunctions => (httpCalls <= 2 /\ httpCalls = HttpCount)
  /\ call.fn = "getPreviewData" =>
       /\ HttpCount <= 2
       /\ httpCalls <= 4
       /\ call.phase = 1 => httpCalls = HttpCount
       /\ call.phase = 2 => httpCalls <= 2 + HttpCount

\* getPreviewData has ended after four HTTP calls.
C10_Witness ==
  /\ call.fn = "getPreviewData"
  /\ pc = "done"
  /\ httpCalls = 4

\* The fixed messages of the input checks.
MissingSeriesIdMessage == "series_id is required."
FieldRequiredMessage == "Field is required for DSIQ_META."
DateRequiredMessage == "Date is required for DSIQ_VALUE."
InvalidDateMessage == "Invalid date."
InvalidDateInputMessage == "Invalid date input."
InputMessages ==
  {MissingSeriesIdMessage, FieldRequiredMessage, DateRequiredMessage,
   InvalidDateMessage, InvalidDateInputMessage}

\* Every message meant for the user: the input messages, the translated
\* provider errors, and the fixed messages of the entry points.
UserFacingMessages ==
  InputMessages
  \cup {KnownCodeMessage[c] : c \in DOMAIN KnownCodeMessage}
  \cup {RateLimitedMessage, ServerUnavailableMessage, UnableToFetchMessage,
        "Unable to reach DataSetIQ. Please try again.", "Value not available.",
        "Metadata \"title\" not found.", "Metadata \"frequency\" not found.",
        "Metadata \"toString\" not found."}
  \cup (ProviderMessages \ {""})

\* C11, as stated: whatever the provider does (any status, a malformed body,
\* a body that is JSON but no object, the HTTP call raising), an entry point
\* that fails raises one of the user-facing messages, and a fetch that has
\* made its calls has returned a result to its caller.
C11_OnlyUserMessages ==
  (call.fn \in FormulaFunctions \cup {"getPreviewData"} /\ pc = "done") =>
    /\ outcome.kind = "throw" => outcome.value.msg \in UserFacingMessages
    /\ HttpCount >= 1 => Returned

\* The raw argument is null or undefined.
Missing(arg) == arg.t \in {"null", "undefined"}
\* The raw argument is missing, or a string that is empty once trimmed.
Blank(arg) == Missing(arg) \/ (arg.t = "string" /\ arg.s \in {"", "  "})
\* The raw date argument is absent: missing, or the empty string.
DateAbsent(arg) == Missing(arg) \/ (arg.t = "string" /\ arg.s = "")
\* The raw date argument is invalid: a Date that holds no time, or a value
\* that is neither a Date nor a string.
DateNotANumber(arg) == arg.t = "date" /\ arg.ms = None
DateOfOtherType(arg) == ~Missing(arg) /\ arg.t \notin {"date", "string"}

\* The fixed messages the running entry point owes to its raw arguments.
InputFaults ==
  (IF Blank(call.args.seriesId) THEN {MissingSeriesIdMessage} ELSE {})
  \cup (IF call.fn = "DSIQ_META" /\ Blank(call.args.field)
        THEN {FieldRequiredMessage} ELSE {})
  \cup (IF call.fn = "DSIQ_VALUE" /\ DateAbsent(call.args.date)
        THEN {DateRequiredMessage} ELSE {})
  \cup (IF call.fn \in {"DSIQ", "DSIQ_VALUE"} /\ DateNotANumber(call.args.date)
        THEN {InvalidDateMessage} ELSE {})
  \cup (IF call.fn \in {"DSIQ", "DSIQ_VALUE"} /\ DateOfOtherType(call.args.date)
        THEN {InvalidDateInputMessage} ELSE {})

\* C12: a formula called with a missing or blank series id, DSIQ_META with no
\* field, DSIQ_VALUE with no date, or a date argument that is invalid, raises
\* the fixed message of one of its faulty arguments and has issued no HTTP
\* call; a formula whose arguments are all in order raises no input message.
C12_InputErrorsBeforeNetwork ==
  call.fn \in FormulaFunctions =>
    IF InputFaults /= {}
    THEN /\ pc = "done"
         /\ outcome.kind = "throw"
         /\ outcome.value.msg \in InputFaults
         /\ httpCalls = 0
         /\ events = <<>>
         /\ request = NoRequest
    ELSE ~(outcome.kind = "throw" /\ outcome.value.msg \in InputMessages)

\* DSIQ_VALUE with a series id in order and a Date that holds no time.
C12_Witness ==
  /\ call.fn = "DSIQ_VALUE"
  /\ call.args.seriesId = JsString(" A/B ")
  /\ call.args.date = JsDate(None)
  /\ outcome = Throw(InvalidDateMessage)
  /\ httpCalls = 0

\* The values of the query parameter of the given name in the built request.
ParamValues(name) ==
  {request.params[i][2] : i \in {j \in DOMAIN request.params : request.params[j][1] = name}}
\* How often the query names the parameter.
ParamCount(name) ==
  Cardinality({j \in DOMAIN request.params : request.params[j][1] = name})
\* The as-of date a raw date argument stands for: the string as given, or the
\* day of the Date in GMT.
AsOfDate(arg) == IF arg.t = "string" THEN arg.s ELSE "1970-01-01"

\* C13: every request built for mode value carries the as-of date of the call
\* as its one end parameter, and a request of any other mode (table, latest,
\* yoy, meta), whatever the entry point, carries no end parameter.
C13_EndOnlyForValue ==
  request /= NoRequest =>
    /\ (options.mode = "value") <=> (call.fn = "DSIQ_VALUE")
    /\ options.mode = "value" =>
         /\ ParamCount("end") = 1
         /\ ParamValues("end") = {AsOfDate(call.args.date)}
    /\ options.mode /= "value" => ParamCount("end") = 0

\* DSIQ_VALUE with a Date argument has issued its request with end=1970-01-01.
C13_Witness ==
  /\ call.fn = "DSIQ_VALUE"
  /\ call.args.date = JsDate(Some(0))
  /\ HttpCount >= 1
  /\ ParamValues("end") = {"1970-01-01"}

\* A series id as a percent-encoded path segment: the slash becomes %2F.
AsPathSegment(id) == IF id = "A/B" THEN "A%2FB" ELSE id

\* C14: a request of mode meta targets the series resource (origin, series
\* path, encoded id) with no query string; a request of any other mode
\* targets the same path followed by /data; the id is percent-encoded as a
\* path segment in both.
C14_EndpointSelection ==
  request /= NoRequest =>
    /\ request.base = "https://datasetiq.com"
    /\ request.path = "/api/public/series/"
    /\ request.id = AsPathSegment(call.series)
    /\ IF options.mode = "meta"
       THEN request.suffix = "" /\ request.params = <<>>
       ELSE request.suffix = "/data"

\* DSIQ_META for the id A/B has called the series resource at .../A%2FB.
C14_Witness ==
  /\ call.fn = "DSIQ_META"
  /\ call.series = "A/B"
  /\ HttpCount >= 1
  /\ request.id = "A%2FB"
  /\ request.suffix = ""
  /\ request.params = <<>>

\* C15: a built request carries the header Authorization: Bearer <key>
\* exactly when a key is stored; a request of a mode other than meta carries
\* one limit parameter, 1000 exactly when the header is there and 100 exactly
\* when it is not; with no key stored, a formula whose arguments are in order
\* goes on to its request, without the header.
C15_CredentialAndLimit ==
  /\ request /= NoRequest =>
       /\ IsSome(request.authorization) <=> IsSome(apiKey)
       /\ IsSome(apiKey) => request.authorization = Some(<<"Bearer", Get(apiKey)>>)
       /\ options.mode /= "meta" =>
            /\ ParamCount("limit") = 1
            /\ (ParamValues("limit") = {"1000"}) <=> IsSome(request.authorization)
            /\ (ParamValues("limit") = {"100"}) <=> ~IsSome(request.authorization)
  /\ (call.fn \in FormulaFunctions /\ InputFaults = {} /\ apiKey = None) =>
       /\ request /= NoRequest
       /\ request.authorization = None

\* With no key stored, DSIQ has fetched with limit=100 and got its grid.
C15_Witness ==
  /\ call.fn = "DSIQ"
  /\ apiKey = None
  /\ request.authorization = None
  /\ ParamValues("limit") = {"100"}
  /\ HttpCount >= 1
  /\ outcome.kind = "return"

\* C16, as stated: the request of DSIQ carries the frequency argument as its
\* freq parameter when the argument is present, and no freq parameter when it
\* is absent.
C16_FrequencySent ==
  (request /= NoRequest /\ call.fn = "DSIQ") =>
    IF Blank(call.args.frequency)
    THEN ParamCount("freq") = 0
    ELSE ParamValues("freq") = {call.args.frequency.s}

\* The observations of a returned result: the data list of its response.
ObservationsOf(res) == Get(res.response).data
\* The two payloads carry a dataset and the mode is meta: the result keeps
\* the dataset alone.
DatasetOnly == options.mode = "meta" /\ IsSome(Get(body).dataset)

\* C17, as stated: the result of a successful fetch holds the same
\* observations for the object-list payload and for the pair-list payload
\* that carries the same observations in the same order.
C17_SameObservationsBothShapes ==
  (call.fn = "normalize" /\ pc = "done") =>
    ObservationsOf(Get(result).objects) = ObservationsOf(Get(result).pairs)

\* C17, amended: unless the mode is meta and the body carries a dataset, the
\* fetchSeries in effect turns the object-list payload into the list of
\* [date, value] pairs in the same order, the list the earlier fetchSeries
\* hands back unchanged from the pair-list payload; from the pair-list payload
\* the fetchSeries in effect makes one [undefined, undefined] per pair.
C17_ObjectListAsPairs ==
  (call.fn = "normalize" /\ pc = "done") =>
    LET pairList == Get(Get(latest).data)
    IN /\ ObservationsOf(Get(result).earlier) = Some(pairList)
       /\ IF DatasetOnly
          THEN /\ ObservationsOf(Get(result).objects) = None
               /\ ObservationsOf(Get(result).pairs) = None
          ELSE /\ ObservationsOf(Get(result).objects) = Some(pairList)
               /\ ObservationsOf(Get(result).objects) =
                    ObservationsOf(Get(result).earlier)
               /\ ObservationsOf(Get(result).pairs) =
                    Some([i \in DOMAIN pairList |-> Array2(None, None)])

\* Two observations, newest first, in table mode: the object list has become
\* the two pairs in the same order.
C17_Witness ==
  /\ call.fn = "normalize"
  /\ pc = "done"
  /\ options.mode = "table"
  /\ Get(body).data = Some(<<Obs1, Obs2>>)
  /\ ObservationsOf(Get(result).objects) = Some(<<Pair1, Pair2>>)
  /\ ObservationsOf(Get(result).earlier) = Some(<<Pair1, Pair2>>)

\* The entry point has ended on a successful response: a 2xx status and a
\* body that is an object without an error object.
SuccessfulResponse ==
  /\ pc = "done"
  /\ IsSome(status)
  /\ Get(status) >= 200 /\ Get(status) < 300
  /\ IsSome(body)
  /\ Get(body).kind = "object"
  /\ ~BodyHasErrorObject
\* The observations of that response in the order the provider sent them.
BodyObservations == IF IsSome(Get(body).data) THEN Get(Get(body).data) ELSE <<>>
ReturnsScalar(x) == outcome = Return([NoValue EXCEPT !.scalar = x])

\* C18: DSIQ_LATEST on a successful response with at least one observation
\* {date, value} returns the value of the last observation in the order the
\* provider sent, whatever the dates and whatever scalar the body carries;
\* with no observation and no scalar it fails with 'Value not available.'.
C18_LatestIsLastObservation ==
  (call.fn = "DSIQ_LATEST" /\ SuccessfulResponse) =>
    LET obs == BodyObservations
    IN /\ (Len(obs) > 0 /\ IsSome(obs[Len(obs)].value)) =>
            ReturnsScalar(obs[Len(obs)].value)
       /\ (Len(obs) = 0 /\ ~IsSome(Get(body).scalar)) =>
            outcome = Throw("Value not available.")

\* The provider sent the newer observation first and a scalar of its own:
\* DSIQ_LATEST returns the value of the one it sent last.
C18_Witness ==
  /\ call.fn = "DSIQ_LATEST"
  /\ SuccessfulResponse
  /\ Get(body).data = Some(<<Obs1, Obs2>>)
  /\ Get(body).scalar = Some(7)
  /\ ReturnsScalar(Some(290))

\* C19: DSIQ_VALUE on a successful response with at least one observation
\* {date, value} returns the value of the observation at index 0.
C19_ValueIsFirstObservation ==
  (call.fn = "DSIQ_VALUE" /\ SuccessfulResponse) =>
    LET obs == BodyObservations
    IN (Len(obs) > 0 /\ IsSome(obs[1].value)) => ReturnsScalar(obs[1].value)

\* A single observation: DSIQ_VALUE returns its value.
C19_Witness ==
  /\ call.fn = "DSIQ_VALUE"
  /\ SuccessfulResponse
  /\ Get(body).data = Some(<<Obs2>>)
  /\ ParamValues("end") = {"2023-06-01"}
  /\ ReturnsScalar(Some(290))

\* C20, as stated: DSIQ_YOY on a successful response whose body carries a
\* scalar returns that scalar, with or without a data list in the body.
C20_YoyScalarPassedThrough ==
  (call.fn = "DSIQ_YOY" /\ SuccessfulResponse /\ IsSome(Get(body).scalar)) =>
    ReturnsScalar(Get(body).scalar)

\* The status hints of the provider.
Hints == {"metadata_only", "ingestion_pending"}
\* The response just read is a success (2xx, an object without an error
\* object) that carries a status hint.
HintSent ==
  /\ IsSome(status)
  /\ Get(status) >= 200 /\ Get(status) < 300
  /\ IsSome(body)
  /\ Get(body).kind = "object"
  /\ ~BodyHasErrorObject
  /\ IsSome(Get(body).status)
  /\ Get(Get(body).status) \in Hints
\* getPreviewData has ended with both of its fetches successful.
PreviewReported ==
  /\ call.fn = "getPreviewData"
  /\ pc = "done"
  /\ outcome.kind = "return"
  /\ Get(outcome.value.preview).error = None
\* What getPreviewData reports agrees with the hint sent on its first fetch.
PreviewAgreesWithHint ==
  PreviewReported =>
    LET preview == Get(outcome.value.preview)
    IN /\ preview.isMetadataOnly <=> (call.sent.status = Some("metadata_only"))
       /\ preview.isPending <=> (call.sent.status = Some("ingestion_pending"))
       /\ IsSome(call.sent.status) => preview.statusMessage = call.sent.message

\* C21, as stated: a successful response that carries a status hint is not
\* turned into a failure, its status and message are in the fetch result
\* unchanged, and getPreviewData reports isMetadataOnly / isPending exactly
\* when the provider sent that status.
C21_HintPreserved ==
  /\ HintSent =>
       /\ Returned
       /\ IsSome(Get(result).response)
       /\ ~IsSome(Get(result).errorMessage)
       /\ Get(Get(result).response).status = Get(body).status
       /\ Get(Get(result).response).message = Get(body).message
  /\ PreviewAgreesWithHint

\* C21, amended: ... its status and message are in the fetch result
\* unchanged, except in a meta fetch whose body carries a dataset, where the
\* result holds the dataset alone; getPreviewData reads the hint of its latest
\* fetch and reports isMetadataOnly / isPending exactly when the provider
\* sent that status on that fetch.
C21_HintPreservedButDatasetOnly ==
  /\ HintSent =>
       /\ Returned
       /\ IsSome(Get(result).response)
       /\ ~IsSome(Get(result).errorMessage)
       /\ IF options.mode = "meta" /\ IsSome(Get(body).dataset)
          THEN /\ Get(Get(result).response).status = None
               /\ Get(Get(result).response).message = None
          ELSE /\ Get(Get(result).response).status = Get(body).status
               /\ Get(Get(result).response).message = Get(body).message
  /\ PreviewAgreesWithHint

\* The latest fetch of getPreviewData was answered with ingestion_pending:
\* the preview reports isPending and the provider's message.
C21_Witness ==
  /\ PreviewReported
  /\ call.sent.status = Some("ingestion_pending")
  /\ Get(outcome.value.preview).isPending
  /\ ~Get(outcome.value.preview).isMetadataOnly
  /\ Get(outcome.value.preview).statusMessage = Some("Ingestion pending.")

\* The message of DSIQ_META for a field the dataset does not have.
FieldNotFoundMessage ==
  [title |-> "Metadata \"title\" not found.",
   frequency |-> "Metadata \"frequency\" not found.",
   toString |-> "Metadata \"toString\" not found."]
\* The translation of a status that comes with no error object.
StatusOnlyMessage(st) ==
  IF st = 429 THEN RateLimitedMessage
  ELSE IF st >= 500 THEN ServerUnavailableMessage
  ELSE UnableToFetchMessage

\* C22: a 2xx response whose body is not JSON is taken for an empty object:
\* the fetch succeeds, DSIQ returns the header row alone, DSIQ_LATEST,
\* DSIQ_VALUE and DSIQ_YOY fail with 'Value not available.', DSIQ_META fails
\* with 'Metadata "<field>" not found.'; on any other status that ends the
\* fetch the error message is the translation of the status alone.
C22_MalformedBodyAsEmptyObject ==
  (call.malformed /\ IsSome(status) /\ pc \in {"returned", "done"}) =>
    IF Get(status) >= 200 /\ Get(status) < 300
    THEN /\ Returned
         /\ IsSome(Get(result).response)
         /\ ~IsSome(Get(result).errorMessage)
         /\ call.fn = "DSIQ" =>
              outcome = Return([NoValue EXCEPT !.grid = << <<"Date", "Value">> >>])
         /\ call.fn \in {"DSIQ_LATEST", "DSIQ_VALUE", "DSIQ_YOY"} =>
              outcome = Throw("Value not available.")
         /\ call.fn = "DSIQ_META" => outcome = Throw(FieldNotFoundMessage[call.field])
    ELSE /\ Returned
         /\ Get(result).errorMessage = Some(StatusOnlyMessage(Get(status)))

\* DSIQ_META was answered 200 with a text that is not JSON.
C22_Witness ==
  /\ call.fn = "DSIQ_META"
  /\ call.field = "title"
  /\ call.malformed
  /\ status = Some(200)
  /\ outcome = Throw("Metadata \"title\" not found.")

\* C23, as stated: DSIQ_META on a successful response returns the value the
\* dataset of the body holds under the requested field when the dataset has
\* that key, and fails with the metadata-not-found message when the key or
\* the whole dataset is absent.
C23_MetaFieldLookup ==
  (call.fn = "DSIQ_META" /\ SuccessfulResponse) =>
    LET dataset == Get(body).dataset
    IN IF IsSome(dataset) /\ call.field \in DOMAIN Get(dataset)
       THEN outcome = Return([NoValue EXCEPT !.field = Some(Get(dataset)[call.field])])
       ELSE outcome = Throw(FieldNotFoundMessage[call.field])

\* DSIQ has returned its grid on a successful response.
GridReturned == call.fn = "DSIQ" /\ SuccessfulResponse /\ outcome.kind = "return"
\* The row of the grid an observation of the body stands for.
ObservationRow(obs) == Array2(obs.date, obs.value)
\* Rows first..last of the grid are observation rows of the body, ordered
\* non-increasing by date.
ObservationRowsSorted(grid, first, last) ==
  /\ \A i \in first..last :
       \E j \in DOMAIN BodyObservations : grid[i] = ObservationRow(BodyObservations[j])
  /\ \A i, k \in first..last :
       (i < k /\ IsSome(grid[i].i0) /\ IsSome(grid[k].i0)) =>
         DateTime(Get(grid[i].i0)) >= DateTime(Get(grid[k].i0))

\* C24, as stated: whatever the id, the stored key and the successful
\* response, the grid of DSIQ is the header row ['Date', 'Value'] followed by
\* observation rows only, ordered non-increasing by date.
C24_HeaderThenSortedObservations ==
  GridReturned =>
    LET grid == outcome.value.grid
    IN /\ grid[1] = <<"Date", "Value">>
       /\ Len(grid) = 1 + Len(BodyObservations)
       /\ ObservationRowsSorted(grid, 2, Len(grid))

\* C24, amended: ... followed by one row per observation, ordered
\* non-increasing by date, and, when no key is stored and the response
\* carries 100 observations or more, by three notice rows after them.
C24_HeaderSortedObservationsNotice ==
  GridReturned =>
    LET grid == outcome.value.grid
        n == Len(BodyObservations)
    IN /\ grid[1] = <<"Date", "Value">>
       /\ Len(grid) >= 1 + n
       /\ ObservationRowsSorted(grid, 2, 1 + n)
       /\ IF apiKey = None /\ n >= 100
          THEN SubSeq(grid, n + 2, Len(grid)) =
                 << <<"", "">>,
                    <<"Free tier limited to 100 most recent observations", "">>,
                    <<"Upgrade for full access: datasetiq.com/pricing", "">> >>
          ELSE Len(grid) = 1 + n

\* The provider sent the older observation first: the grid of DSIQ is the
\* header, the row of 2024-01-01, the row of 2023-01-01.
C24_Witness ==
  /\ GridReturned
  /\ apiKey = None
  /\ Get(body).data = Some(<<Obs2, Obs1>>)
  /\ outcome.value.grid = << <<"Date", "Value">> >> \o <<Pair1, Pair2>>

\* buildArrayResult has returned.
TableBuilt == call.fn = "buildArrayResult" /\ pc = "done"
Rearrangements(n) == {p \in [1..n -> 1..n] : \A i, k \in 1..n : i /= k => p[i] /= p[k]}
\* The time stamp the comparator reads from a row.
RowTime(row) == DateTime(Get(row.i0))

\* C25: on an array of n rows buildArrayResult returns the header followed by
\* exactly n rows, a permutation of the input: later dates first, rows of equal
\* date in their input order; the input list is as it was. On input that is no
\* array it returns the header only.
C25_StableDescendingPermutation ==
  TableBuilt =>
    LET input == Get(latest)
        grid == outcome.value.grid
        n == Len(input.items)
    IN /\ outcome.kind = "return"
       /\ grid[1] = <<"Date", "Value">>
       /\ result = latest
       /\ IF input.isArray
          THEN /\ Len(grid) = n + 1
               /\ \E p \in Rearrangements(n) :
                    /\ \A i \in 1..n : grid[i + 1] = input.items[p[i]]
                    /\ \A i, k \in 1..n :
                         i < k =>
                           \/ RowTime(input.items[p[i]]) > RowTime(input.items[p[k]])
                           \/ /\ RowTime(input.items[p[i]]) = RowTime(input.items[p[k]])
                              /\ p[i] < p[k]
          ELSE grid = << <<"Date", "Value">> >>

\* Three rows, the two of 2023 first: the row of 2024 leads the grid and the
\* two of 2023 follow in the order they came in.
C25_Witness ==
  /\ TableBuilt
  /\ Get(latest).items = << Array2(Some("2023-01-01"), Some(7)),
                             Array2(Some("2023-01-01"), Some(290)),
                             Array2(Some("2024-01-01"), Some(300)) >>
  /\ outcome.value.grid = << <<"Date", "Value">> >> \o
                            << Array2(Some("2024-01-01"), Some(300)),
                               Array2(Some("2023-01-01"), Some(7)),
                               Array2(Some("2023-01-01"), Some(290)) >>

\* C26: no step of a formula entry point or of its fetch writes a user
\* property: across every step of the execution of a formula, from its call
\* to its end, the API key, the favorites, the recents and the templates are
\* what they were.
C26_FetchLeavesUserProperties ==
  [][(/\ execution' /= execution
      /\ call.fn \in FormulaFunctions \/ call'.fn \in FormulaFunctions) =>
       /\ apiKey' = apiKey
       /\ userProperties' = userProperties]_vars

\* DSIQ has come to its end through a retry, with a key, a favorite, a recent
\* id and a template in the user properties.
C26_Witness ==
  /\ pc = "done"
  /\ call.fn = "DSIQ"
  /\ httpCalls = 2
  /\ IsSome(apiKey)
  /\ userProperties.favorites = <<"GDP">>
  /\ userProperties.recents = <<"GDP">>
  /\ userProperties.templates /= <<>>

\* The host returns from the calls it is handed: a UrlFetchApp.fetch that is
\* due is answered and a Utilities.sleep that is due ends.
NextLive ==
  \/ \E seriesId \in FormulaIds, frequency \in {JsNull}, startDate \in {JsUndefined} :
       DSIQ(seriesId, frequency, startDate)
  \/ \E seriesId \in FormulaIds : DSIQ_LATEST(seriesId)
  \/ \E seriesId \in FormulaIds, date \in {JsDate(Some(0))} : DSIQ_VALUE(seriesId, date)
  \/ \E seriesId \in FormulaIds : DSIQ_YOY(seriesId)
  \/ \E seriesId \in FormulaIds, field \in {JsString("title")} : DSIQ_META(seriesId, field)
  \/ LoopIteration
  \/ UrlFetchRaises
  \/ Sleep
  \/ EndExecution

SpecLive == Init /\ [][NextLive]_vars /\ WF_vars(LoopIteration) /\ WF_vars(Sleep)

\* fetchSeries is under way / has come to its end (a result, or an error raised).
FetchUnderWay == pc \in {"fetch", "sleep"}
FetchOver == pc \in {"returned", "done"}

\* C27: as long as the host answers each HTTP call and ends each sleep, a
\* fetchSeries call that is under way comes to its end, and no fetch makes
\* more than two passes of its loop, whatever the provider answers.
C27_FetchTerminates ==
  /\ [](HttpCount <= 2 /\ SleepCount <= 1)
  /\ FetchUnderWay ~> FetchOver

\* A fetch has come to its end after two passes: the first answer was
\* retryable, the second was a retryable status again.
C27_Witness ==
  /\ FetchOver
  /\ events = <<HttpEvent, SleepEvent(500), HttpEvent>>
  /\ status = Some(503)
  /\ IsSome(result)

UnableToReachMessage == "Unable to reach DataSetIQ. Please try again."

\* C28: the return after the loop of fetchSeries is never reached: whenever
\* the loop condition is tested the counter is below 2, and no fetch result
\* and no entry point carries the message of that return.
C28_FallbackUnreachable ==
  /\ pc = "fetch" => attempt < 2
  /\ IsSome(result) => Get(result).errorMessage /= Some(UnableToReachMessage)
  /\ outcome.value.msg /= UnableToReachMessage

\* The second pass has been answered with a retryable status: the fetch has
\* returned the message of that status, the counter at 1.
C28_Witness ==
  /\ IsSome(result)
  /\ attempt = 1
  /\ HttpCount = 2
  /\ status = Some(429)
  /\ Get(result).errorMessage = Some("Rate limited. Please retry shortly.")

\* A fetch result that reports a failure.
Failed(res) == IsSome(res.errorMessage)

\* C29: the errorMessage of every failed fetch is a non-empty string, also
\* when the provider's error message is empty or missing, and no caller takes
\* a failed fetch for a success: DSIQ, the scalar functions and DSIQ_META
\* raise the message, getPreviewData returns it as its error.
C29_FailedFetchDetected ==
  /\ (IsSome(result) /\ Failed(Get(result))) => Get(Get(result).errorMessage) /= ""
  /\ (pc = "done" /\ call.fn \in FormulaFunctions /\ IsSome(result)
      /\ Failed(Get(result))) =>
       /\ outcome.kind = "throw"
       /\ outcome.value.msg = Get(Get(result).errorMessage)
  /\ (pc = "done" /\ call.fn = "getPreviewData" /\ outcome.kind = "return"
      /\ (Failed(Get(latest)) \/ Failed(Get(result)))) =>
       LET shown == Get(outcome.value.preview).error
       IN /\ IsSome(shown)
          /\ Get(shown) /= ""
          /\ shown = IF Failed(Get(latest)) THEN Get(latest).errorMessage
                     ELSE Get(result).errorMessage

\* The provider answered 401 with an error object whose message is the empty
\* string: DSIQ_META raises 'Unable to fetch data.'.
C29_Witness ==
  /\ pc = "done"
  /\ call.fn = "DSIQ_META"
  /\ status = Some(401)
  /\ IsSome(body)
  /\ HasError(Get(body))
  /\ Get(Get(body).error).message = Some("")
  /\ outcome = Throw("Unable to fetch data.")

\* C30: one fetch reads the key once and builds its request once: every HTTP
\* call of the fetch is handed the request built before the loop, so the two
\* calls of a retried fetch are handed the same URL, limit and headers, also
\* when the sidebar saved or cleared the key between the two.
C30_OneRequestPerFetch ==
  /\ \A i \in DOMAIN call.requests : call.requests[i] = request
  /\ Len(call.requests) = 2 => call.requests[1] = call.requests[2]

\* The first call went out with no key stored, the sidebar saved a key while
\* the fetch slept, and the retry went out without credential and with the
\* limit of 100 again.
C30_Witness ==
  /\ call.fn = "DSIQ"
  /\ call.keys = <<None, Some("key-1")>>
  /\ Len(call.requests) = 2
  /\ call.requests[2].authorization = None
  /\ call.requests[2].params = << <<"limit", "100">> >>
  /\ call.requests[1] = call.requests[2]

\* The grid of DSIQ holds, after the header and the rows of the observations,
\* the three notice rows.
NoticeAppended ==
  LET grid == outcome.value.grid
      n == Len(grid)
  IN /\ n = Len(BodyObservations) + 4
     /\ SubSeq(grid, n - 2, n) =
          << <<"", "">>,
             <<"Free tier limited to 100 most recent observations", "">>,
             <<"Upgrade for full access: datasetiq.com/pricing", "">> >>
\* The request of the fetch went out without credential, with the limit of 100.
AnonymousRequest ==
  /\ request.authorization = None
  /\ ParamValues("limit") = {"100"}

\* C31: DSIQ appends the notice rows exactly when the request it sent was
\* anonymous and 100 observations or more came back, also when the sidebar
\* saves or clears the key while the formula is computed.
C31_NoticeIffAnonymousRequest ==
  GridReturned =>
    (NoticeAppended <=> (AnonymousRequest /\ Len(BodyObservations) >= 100))

\* saveApiKey / clearApiKey has come to its end.
KeySaveOver == pc = "done" /\ call.fn = "saveApiKey"
KeyClearOver == pc = "done" /\ call.fn = "clearApiKey"

\* C32: the stored key is absent or a non-empty string without blanks around
\* it; saveApiKey of a missing or blank key raises and leaves the stored key
\* as it was; after saveApiKey of another key the trimmed key is stored, after
\* clearApiKey none is; and a fetch sends Bearer and the stored key, or no
\* credential when none is stored.
C32_StoredKeyTrimmedOrAbsent ==
  /\ [](/\ IsSome(apiKey) => (Get(apiKey) /= "" /\ Trim(Get(apiKey)) = Get(apiKey))
        /\ (KeySaveOver /\ Blank(call.args.key)) => outcome = Throw("API key is required.")
        /\ (KeySaveOver /\ ~Blank(call.args.key)) =>
             /\ outcome.kind = "return"
             /\ apiKey = Some(Trim(call.args.key.s))
        /\ KeyClearOver => (outcome.kind = "return" /\ apiKey = None)
        /\ request /= NoRequest =>
             request.authorization =
               IF IsSome(apiKey) THEN Some(<<"Bearer", Get(apiKey)>>) ELSE None)
  /\ [][(call'.fn = "saveApiKey" /\ pc = "idle" /\ Blank(call'.args.key)) =>
          apiKey' = apiKey]_vars

\* saveApiKey(" key-1 ") has stored key-1 and the formula computed next has
\* sent Bearer key-1.
C32_Witness ==
  /\ call.fn = "DSIQ_LATEST"
  /\ httpCalls >= 1
  /\ apiKey = Some("key-1")
  /\ request.authorization = Some(<<"Bearer", "key-1">>)


\* ---- C33
NoDuplicates(list) == \A i, j \in DOMAIN list : list[i] = list[j] => i = j
CallOver(fn) == pc = "done" /\ call.fn = fn
\* The id the call was handed.
CallId == call.ids[1]

\* C33: whatever addFavorite and removeFavorite calls were made, the
\* favorites hold no id twice and at most 50 ids; after addFavorite of an id
\* that was on the list the list is as it was, after addFavorite of an id
\* that was not on it the id is first, and after removeFavorite of an id the
\* list is the former one without that id, the others in their order.
C33_FavoritesDistinctCapped ==
  LET favorites == userProperties.favorites
  IN /\ NoDuplicates(favorites)
     /\ Len(favorites) <= 50
     /\ (CallOver("addFavorite") /\ Includes(call.read, CallId)) => favorites = call.read
     /\ (CallOver("addFavorite") /\ ~Includes(call.read, CallId)) =>
          /\ favorites /= <<>>
          /\ favorites[1] = CallId
     /\ CallOver("removeFavorite") =>
          /\ ~Includes(favorites, CallId)
          /\ favorites = SelectSeq(call.read, LAMBDA id : id /= CallId)

\* addFavorite of a new id on a list of 50: the id is first and 50 are kept.
C33_Witness ==
  /\ CallOver("addFavorite")
  /\ Len(call.read) = 50
  /\ ~Includes(call.read, CallId)
  /\ Len(userProperties.favorites) = 50
  /\ userProperties.favorites[1] = CallId


\* ---- C34
InsertOver == CallOver("insertFormulaIntoActiveCell") \/ CallOver("insertMultipleSeries")
IsPrefix(short, long) ==
  /\ Len(short) <= Len(long)
  /\ \A i \in DOMAIN short : short[i] = long[i]
\* The ids of the list that the call was not handed, in the order of the list.
NotInserted(list) == SelectSeq(list, LAMBDA id : ~Includes(call.ids, id))

\* C34: whatever insertFormulaIntoActiveCell and insertMultipleSeries calls
\* were made, the recents hold no id twice and at most 20 ids; after a call
\* the last id it was handed is first, the ids it was not handed are in the
\* order they had (those beyond the 20 kept are gone), and an id that was on
\* the list and is inserted again is first, followed by all the others in
\* their order; a call that was handed no id leaves the list as it was.
C34_RecentsDistinctCappedLatestFirst ==
  LET recents == userProperties.recents
  IN /\ NoDuplicates(recents)
     /\ Len(recents) <= 20
     /\ (InsertOver /\ call.ids /= <<>>) =>
          /\ recents /= <<>>
          /\ recents[1] = call.ids[Len(call.ids)]
          /\ IsPrefix(NotInserted(recents), NotInserted(call.read))
     /\ (InsertOver /\ call.ids = <<>>) => recents = call.read
     /\ (CallOver("insertFormulaIntoActiveCell") /\ Includes(call.read, CallId)) =>
          recents = <<CallId>> \o SelectSeq(call.read, LAMBDA id : id /= CallId)

\* insertMultipleSeries of two ids that were on a list of 20, behind a third:
\* the second is first, the first second, the third comes next.
C34_Witness ==
  /\ CallOver("insertMultipleSeries")
  /\ Len(call.ids) = 2
  /\ call.ids[1] /= call.ids[2]
  /\ Len(call.read) = 20
  /\ Includes(call.read, call.ids[1])
  /\ Includes(call.read, call.ids[2])
  /\ ~Includes(call.ids, call.read[1])
  /\ SubSeq(userProperties.recents, 1, 3) = <<call.ids[2], call.ids[1], call.read[1]>>

====
